---- MODULE Spec2Model ----
(***************************************************************************)
(* Stereo core camera: the dual-camera controller (StereoCamera), the      *)
(* operator capture workflow (EnhancedMainWindow) and the storage manager  *)
(* (StorageManager), modelled from the Python sources.                     *)
(*                                                                         *)
(* Numbers.  Depths are exact multiples of one millimetre (an integer      *)
(* count of mm) or the float NaN; exposure times are exact rationals n/d.  *)
(* Binary rounding of the Python floats is not modelled.                   *)
(***************************************************************************)
EXTENDS Integers, Sequences, FiniteSets, TLC

\* ---------------------------------------------------------------- bounds
MaxFocusSteps == 4      \* largest configured focus_steps explored
MaxCaptures == 2        \* successful captures explored in the workflow
MaxDepth == 500         \* largest depth_to (mm) the + button is explored to

\* ------------------------------------------------------ program constants
InitialExposureTime == 10000    \* manual_exposure_time set by __init__
FallbackFocusStep == 3          \* config.get('default_focus_step', 3)

VARIABLES
    \* configuration handed to StereoCamera.__init__
    exposure_range,         \* <<min, max>> in microseconds
    focus_steps,            \* number of discrete focus positions
    default_focus_step,     \* configured starting step
    picamera2,              \* TRUE: the Picamera2 library is importable
    \* StereoCamera fields
    camera_0, camera_1,     \* "None" or "Camera"
    initialized,            \* _initialized
    manual_exposure_time,   \* rational [n, d]
    focus_step_0, focus_step_1,
    lock,                   \* _lock: "free" or the holder
    \* the two devices
    running,                \* channel -> streaming
    hwExposure,             \* channel -> ExposureTime control last applied (0: never)
    \* main (UI) thread inside the controller
    pcMain,                 \* "idle" or the operation in progress
    call,                   \* the current / last controller call
    ret,                    \* its return value ("True", "False", "None")
    ret_pair,               \* the pair returned by capture_stereo_pair
    stop_failed,            \* a stop() raised during the last cleanup
    \* preview polling thread
    pcPreview,
    frame,                  \* last value returned by get_preview_frame
    thread_running,         \* PreviewUpdateThread.running
    pcThread,               \* where the QThread is: "created", "started",
                            \* "loop", "body" or "finished"
    pcStop,                 \* PreviewUpdateThread.stop(): "idle", "waiting"
                            \* (inside wait()) or "returned"
    \* configuration read by EnhancedMainWindow (config['ui'])
    default_segment_length, \* mm
    segment_adjustment_step,\* mm
    \* EnhancedMainWindow fields and input widgets
    workflow_state,
    project_input, borehole_input,          \* text: sequence of characters
    depth_from_input, depth_to_input,       \* text: [kind, v]
    current_project, current_borehole,
    current_depth_from, current_depth_to,   \* float: [nan, v]
    captured_images,        \* <<>> (None) or <<left, right>> capture numbers
    preview_dialog,         \* TRUE once the PreviewDialog exists
    \* storage
    files,                  \* primary storage: set of [base, n, img]
    usb_files,              \* backup copies: set of [base, n, img]
    storage_result,         \* what save_images_to_storage returned last
    base_path,              \* what generate_file_path returned when called
                            \* on its own (a local of _save_images otherwise)
    low_space_warning,      \* bytes
    critical_space_warning, \* bytes
    storage_info,           \* what check_storage_space returned last for
                            \* internal storage
    \* history
    capture_count,          \* successful captures so far
    accepted,               \* channels of the pending pair the operator accepted
    last_event              \* the operator event or call result handled last

camVars == <<camera_0, camera_1, initialized, manual_exposure_time,
             focus_step_0, focus_step_1, lock, running, hwExposure>>
cfgVars == <<exposure_range, focus_steps, default_focus_step, picamera2>>
mainVars == <<pcMain, call, ret, ret_pair, stop_failed>>
threadVars == <<thread_running, pcThread, pcStop>>
prevVars == <<pcPreview, frame, threadVars>>
uiCfgVars == <<default_segment_length, segment_adjustment_step>>
inputVars == <<project_input, borehole_input, depth_from_input, depth_to_input>>
currentVars == <<current_project, current_borehole, current_depth_from,
                 current_depth_to>>
spaceVars == <<low_space_warning, critical_space_warning, storage_info>>
storeVars == <<files, usb_files, storage_result, base_path, spaceVars>>
wfVars == <<uiCfgVars, workflow_state, inputVars, currentVars,
            captured_images, preview_dialog, storeVars, capture_count, accepted,
            last_event>>
vars == <<cfgVars, camVars, mainVars, prevVars, wfVars>>

Channels == {0, 1}

\* enhanced_main_window.py 43-51: the preview thread inside its loop, which
\* is where the polls of get_preview_frame come from; stop() not called
PreviewThreadLoops ==
    /\ thread_running = TRUE
    /\ pcThread = "loop"
    /\ pcStop = "idle"

\* ------------------------------------------------------------- rationals
RECURSIVE GCD(_, _)
GCD(a, b) == IF b = 0 THEN a ELSE GCD(b, a % b)

Rat(n, d) == LET g == GCD(n, d) IN [n |-> n \div g, d |-> d \div g]

\* min(x, bound) and max(x, bound) of a rational and an integer bound
RatMin(x, b) == IF x.n <= b * x.d THEN x ELSE Rat(b, 1)
RatMax(x, b) == IF x.n >= b * x.d THEN x ELSE Rat(b, 1)

\* int(x) for a non-negative rational
RatInt(x) == x.n \div x.d

\* --------------------------------------------------------- adjust_exposure
Directions == {"brighter", "darker"}

NewExposureTime_noclamp(cur, direction, range) ==
    IF direction = "brighter" THEN Rat(cur.n * 3, cur.d * 2)
    ELSE Rat(cur.n * 2, cur.d * 3)

NewExposureTime_stall(cur, direction, range) ==
    IF direction = "brighter"
    THEN IF cur.n * 3 <= range[2] * cur.d * 2
         THEN Rat(cur.n * 3, cur.d * 2) ELSE cur
    ELSE RatMax(Rat(cur.n * 2, cur.d * 3), range[1])

\* controller.py 263-272: x * 1.5 clamped from above, x / 1.5 from below
NewExposureTime(cur, direction, range) ==
    IF direction = "brighter"
    THEN RatMin(Rat(cur.n * 3, cur.d * 2), range[2])
    ELSE RatMax(Rat(cur.n * 2, cur.d * 3), range[1])

InRange(x, range) == range[1] * x.d <= x.n /\ x.n <= range[2] * x.d

\* ------------------------------------------------------------ adjust_focus
NewFocusStep_noclamp(current_step, direction, n) ==
    IF direction = "increase" THEN current_step + 1 ELSE current_step - 1

\* controller.py 307-310
NewFocusStep(current_step, direction, n) ==
    IF direction = "increase"
    THEN IF current_step + 1 <= n - 1 THEN current_step + 1 ELSE n - 1
    ELSE IF current_step - 1 >= 0 THEN current_step - 1 ELSE 0

FocusStep(ch) == IF ch = 0 THEN focus_step_0 ELSE focus_step_1

\* no call made yet
NoCall == [op |-> "none", arg |-> "", ch |-> 0]

\* ------------------------------------------- floats and their text forms
Num(v) == [nan |-> FALSE, v |-> v]
NaN == [nan |-> TRUE, v |-> 0]

\* x < y and x >= y on floats: every comparison with NaN is false
FloatLess(x, y) == ~x.nan /\ ~y.nan /\ x.v < y.v
FloatGeq(x, y) == ~x.nan /\ ~y.nan /\ x.v >= y.v
FloatAdd(x, k) == IF x.nan THEN NaN ELSE Num(x.v + k)

\* a text that reads as the decimal v/1000, as "nan", or as no number
NumText(v) == [kind |-> "num", v |-> v]
NanText == [kind |-> "nan", v |-> 0]
BadText == [kind |-> "bad", v |-> 0]

\* float(text): [ok |-> FALSE] stands for ValueError
ParseFloat(text) ==
    IF text.kind = "num" THEN [ok |-> TRUE, val |-> Num(text.v)]
    ELSE IF text.kind = "nan" THEN [ok |-> TRUE, val |-> NaN]
    ELSE [ok |-> FALSE, val |-> NaN]

\* v rounded to a multiple of 10 mm (two decimals of a metre); no input of
\* the model ends in 5 mm, so no tie arises
Round10(v) ==
    IF v >= 0 THEN ((v + 5) \div 10) * 10 ELSE 0 - (((0 - v) + 5) \div 10) * 10

\* f"{x:.2f}"
Format2f(x) == IF x.nan THEN NanText ELSE NumText(Round10(x.v))

\* str.strip(): leading and trailing blanks removed
RECURSIVE StripLeft(_, _)
StripLeft(s, chars) ==
    IF s # <<>> /\ Head(s) \in chars THEN StripLeft(Tail(s), chars) ELSE s

RECURSIVE StripRight(_, _)
StripRight(s, chars) ==
    IF s # <<>> /\ s[Len(s)] \in chars
    THEN StripRight(SubSeq(s, 1, Len(s) - 1), chars) ELSE s

Strip(s, chars) == StripRight(StripLeft(s, chars), chars)

\* -------------------------------------------------------- StorageManager
InvalidChars == {"<", ">", ":", "\"", "/", "\\", "|", "?", "*"}
Unnamed == <<"u", "n", "n", "a", "m", "e", "d">>

\* manager.py 142-158
SanitizeFilename_blank(filename) ==
    LET replaced == [i \in 1..Len(filename) |->
                        IF filename[i] \in InvalidChars \cup {" "} THEN "_"
                        ELSE filename[i]]
        stripped == Strip(replaced, {" ", "."})
    IN  IF stripped = <<>> THEN Unnamed ELSE stripped

SanitizeFilename_nodots(filename) ==
    LET replaced == [i \in 1..Len(filename) |->
                        IF filename[i] \in InvalidChars THEN "_"
                        ELSE filename[i]]
    IN  Strip(replaced, {" "})

SanitizeFilename(filename) ==
    LET replaced == [i \in 1..Len(filename) |->
                        IF filename[i] \in InvalidChars THEN "_"
                        ELSE filename[i]]
        stripped == Strip(replaced, {" ", "."})
    IN  IF stripped = <<>> THEN Unnamed ELSE stripped

\* the decimal digits of a natural number, as characters
DigitChar(d) == <<"0", "1", "2", "3", "4", "5", "6", "7", "8", "9">>[d + 1]

RECURSIVE Digits(_)
Digits(n) ==
    IF n < 10 THEN <<DigitChar(n)>>
    ELSE Digits(n \div 10) \o <<DigitChar(n % 10)>>

\* the characters of f"{x:.2f}"
FormatChars(x) ==
    LET text == Format2f(x)
        cm == (IF text.v < 0 THEN 0 - text.v ELSE text.v) \div 10
    IN  IF text.kind = "nan" THEN <<"n", "a", "n">>
        ELSE (IF text.v < 0 THEN <<"-">> ELSE <<>>)
                 \o Digits(cm \div 100)
                 \o <<".", DigitChar((cm % 100) \div 10), DigitChar(cm % 10)>>

\* str.replace(old, new) on single characters
Replace(str, old, new) ==
    [i \in 1..Len(str) |-> IF str[i] = old THEN new ELSE str[i]]

\* manager.py 121-140: the path below internal_path, as its components
\* (project folder, borehole folder, file name without the -1.jpg / -2.jpg
\* that save_stereo_pair appends)
GenerateFilePath_raw(project_name, borehole_name, depth_from, depth_to) ==
    LET from_str == Replace(FormatChars(depth_from), ".", "_")
        to_str == Replace(FormatChars(depth_to), ".", "_")
    IN  [project  |-> SanitizeFilename(project_name),
         borehole |-> SanitizeFilename(borehole_name),
         base_filename |-> borehole_name \o <<"-">> \o from_str
                               \o <<"-">> \o to_str]

GenerateFilePath(project_name, borehole_name, depth_from, depth_to) ==
    LET project_clean == SanitizeFilename(project_name)
        borehole_clean == SanitizeFilename(borehole_name)
        from_str == Replace(FormatChars(depth_from), ".", "_")
        to_str == Replace(FormatChars(depth_to), ".", "_")
    IN  [project  |-> project_clean,
         borehole |-> borehole_clean,
         base_filename |-> borehole_clean \o <<"-">> \o from_str
                               \o <<"-">> \o to_str]

\* the value of base_path before generate_file_path has been called
NoPath == [project |-> <<>>, borehole |-> <<>>, base_filename |-> <<>>]

\* controller.py 224-250: the files of primary storage after save_stereo_pair
\* when step f raises ("mkdir", "write1", "write2"; "none": none does).
\* A file written again replaces the one of the same name.
SaveFaults == {"none", "mkdir", "write1", "write2"}

Written(fs, base, n, img) ==
    {x \in fs : ~(x.base = base /\ x.n = n)}
        \cup {[base |-> base, n |-> n, img |-> img]}

SaveStereoPair(fs, images, base, f) ==
    IF f \in {"mkdir", "write1"} THEN [success |-> FALSE, files |-> fs]
    ELSE IF f = "write2"
    THEN [success |-> FALSE, files |-> Written(fs, base, 1, images[1])]
    ELSE [success |-> TRUE,
          files |-> Written(Written(fs, base, 1, images[1]),
                            base, 2, images[2])]

\* manager.py 160-221: save_images_to_storage on the files image_files (the
\* channel numbers of base-1.jpg and base-2.jpg), fs being primary storage
\* and usb the backup drive; u names the drive state ("no_drive") or the
\* copies that raise.  The result is the returned dictionary, with the
\* backup drive's files after the call as usb_files.
UsbOutcomes == {"no_drive", "ok", "fail1", "fail2", "fail_both"}

NoResult ==
    [internal_success |-> FALSE, usb_success |-> FALSE,
     internal_paths |-> <<>>, usb_paths |-> <<>>, errors |-> <<>>]

\* os.path.exists(base-n.jpg)
Exists(fs, base, n) == \E x \in fs : x.base = base /\ x.n = n

\* mkdir or shutil.copy2 of file n raises (lines 202-205)
CopyFails(u, n) ==
    u = "fail_both" \/ (u = "fail1" /\ n = 1) \/ (u = "fail2" /\ n = 2)

\* lines 194-209 on the remaining files rest: [paths, errors, usb]
RECURSIVE BackupLoop_stop(_, _, _, _, _)
BackupLoop_stop(fs, usb, base, rest, u) ==
    IF rest = <<>> THEN [paths |-> <<>>, errors |-> <<>>, usb |-> usb]
    ELSE IF CopyFails(u, Head(rest))
    THEN [paths |-> <<>>,
          errors |-> <<[kind |-> "usb_backup_failed", n |-> Head(rest)]>>,
          usb |-> usb]
    ELSE LET img == (CHOOSE x \in fs : x.base = base /\ x.n = Head(rest)).img
             later == BackupLoop_stop(fs, Written(usb, base, Head(rest), img),
                                      base, Tail(rest), u)
         IN  [later EXCEPT !.paths = <<Head(rest)>> \o later.paths]

RECURSIVE BackupLoop(_, _, _, _, _)
BackupLoop(fs, usb, base, rest, u) ==
    IF rest = <<>> THEN [paths |-> <<>>, errors |-> <<>>, usb |-> usb]
    ELSE IF CopyFails(u, Head(rest))
    THEN LET later == BackupLoop(fs, usb, base, Tail(rest), u)
         IN  [later EXCEPT !.errors =
                 <<[kind |-> "usb_backup_failed", n |-> Head(rest)]>>
                     \o later.errors]
    ELSE LET img == (CHOOSE x \in fs : x.base = base /\ x.n = Head(rest)).img
             later == BackupLoop(fs, Written(usb, base, Head(rest), img),
                                 base, Tail(rest), u)
         IN  [later EXCEPT !.paths = <<Head(rest)>> \o later.paths]

SaveImagesToStorage(fs, usb, base, image_files, u) ==
    LET internal_paths == SelectSeq(image_files,
                                    LAMBDA n : Exists(fs, base, n))
        missing == SelectSeq(image_files, LAMBDA n : ~Exists(fs, base, n))
        not_found == [i \in 1..Len(missing) |->
                         [kind |-> "internal_not_found", n |-> missing[i]]]
        loop == IF u = "no_drive"
                THEN [paths |-> <<>>,
                      errors |-> <<[kind |-> "no_usb", n |-> 0]>>,
                      usb |-> usb]
                ELSE BackupLoop(fs, usb, base, internal_paths, u)
    IN  [internal_success |-> internal_paths # <<>>,
         usb_success |-> loop.paths # <<>>,
         internal_paths |-> internal_paths,
         usb_paths |-> loop.paths,
         errors |-> not_found \o loop.errors,
         usb_files |-> loop.usb]

\* manager.py 30-32: the thresholds of a manager constructed from a
\* configuration in megabytes; no storage check made yet
Mebibyte == 1024 * 1024
DefaultLowMB == 1000
DefaultCriticalMB == 500
NoInfo == [free |-> 0, free_mb |-> 0, warning_level |-> "none"]

StorageInit(low_mb, critical_mb) ==
    /\ low_space_warning = low_mb * Mebibyte
    /\ critical_space_warning = critical_mb * Mebibyte
    /\ storage_info = NoInfo

\* manager.py 109-119
GetWarningLevel_lowfirst(free_bytes, critical, low) ==
    IF free_bytes < low THEN "low"
    ELSE IF free_bytes < critical THEN "critical"
    ELSE "ok"

GetWarningLevel(free_bytes, critical, low) ==
    IF free_bytes < critical THEN "critical"
    ELSE IF free_bytes < low THEN "low"
    ELSE "ok"

\* enhanced_main_window.py 75-85 and the input widgets of 179-219: the
\* window as constructed, with empty primary and backup storage
WindowInit(segment_length, adjustment_step) ==
    /\ default_segment_length = segment_length
    /\ segment_adjustment_step = adjustment_step
    /\ workflow_state = "main_input"
    /\ project_input = <<>>
    /\ borehole_input = <<>>
    /\ depth_from_input = NumText(0)
    /\ depth_to_input = NumText(500)
    /\ current_project = <<>>
    /\ current_borehole = <<>>
    /\ current_depth_from = Num(0)
    /\ current_depth_to = Num(500)
    /\ captured_images = <<>>
    /\ preview_dialog = FALSE
    /\ files = {}
    /\ usb_files = {}
    /\ storage_result = NoResult
    /\ base_path = NoPath
    /\ StorageInit(DefaultLowMB, DefaultCriticalMB)
    /\ capture_count = 0
    /\ accepted = {}
    /\ last_event = "none"

\* controller.py 63-94: the controller as constructed from a configuration
Construct(range, fs, dfs, pic) ==
    /\ WindowInit(500, 50)
    /\ exposure_range = range
    /\ focus_steps = fs
    /\ default_focus_step = dfs
    /\ picamera2 = pic
    /\ camera_0 = "None"
    /\ camera_1 = "None"
    /\ initialized = FALSE
    /\ manual_exposure_time = Rat(InitialExposureTime, 1)
    /\ focus_step_0 = dfs
    /\ focus_step_1 = dfs
    /\ lock = "free"
    /\ running = [c \in Channels |-> FALSE]
    /\ hwExposure = [c \in Channels |-> 0]
    /\ pcMain = "idle"
    /\ call = NoCall
    /\ ret = "None"
    /\ ret_pair = <<"None", "None">>
    /\ stop_failed = FALSE
    /\ pcPreview = "idle"
    /\ frame = "None"
    /\ PreviewThreadLoops

\* ------------------------------------------------------------- initialize
\* The sub-step that raises.  With the mock camera (Picamera2 missing)
\* _configure_camera always raises: MockCamera has none of the
\* create_*_configuration methods (controller.py 24-54, 152-194).
InitFaults ==
    IF picamera2
    THEN {"none", "create0", "create1", "configure0", "configure1",
          "start0", "start1"}
    ELSE {"configure0"}

\* controller.py 99-143: handles, streaming state and success after the
\* locked section, when sub-step f raises ("none": no sub-step raises)
InitializeOutcome(f) ==
    [c0  |-> IF f = "create0" THEN "None" ELSE "Camera",
     c1  |-> IF f \in {"create0", "create1"} THEN "None" ELSE "Camera",
     run |-> [c \in Channels |->
                 IF c = 0 THEN f \in {"none", "start1"} ELSE f = "none"],
     ok  |-> f = "none"]

\* controller.py 96-143, called on a controller that holds no handles
InitializeBody(f) ==
    /\ pcMain = "idle" /\ lock = "free"
    /\ camera_0 = "None" /\ camera_1 = "None" /\ ~initialized
    /\ f \in InitFaults
    /\ LET o == InitializeOutcome(f) IN
        /\ camera_0' = o.c0
        /\ camera_1' = o.c1
        /\ running' = o.run
        /\ initialized' = o.ok
        /\ pcMain' = IF o.ok THEN "initialize" ELSE "initialize_raise"
        /\ ret' = IF o.ok THEN "True" ELSE "None"
    /\ lock' = "main"
    /\ call' = [op |-> "initialize", arg |-> f, ch |-> 0]
    /\ stop_failed' = FALSE
    /\ UNCHANGED <<manual_exposure_time, focus_step_0, focus_step_1,
                   hwExposure, ret_pair>>
    /\ UNCHANGED <<cfgVars, prevVars, wfVars>>

\* ---------------------------------------------------------------- cleanup
StopFaults == IF picamera2 THEN {"none", "stop0", "stop1"} ELSE {"none"}

CleanupOutcome_keepflag(c0, c1, run, init, sf) ==
    IF c0 # "None" /\ sf = "stop0"
    THEN [c0 |-> c0, c1 |-> c1, run |-> run, init |-> init, raised |-> TRUE]
    ELSE IF c1 # "None" /\ sf = "stop1"
    THEN [c0 |-> "None", c1 |-> c1, run |-> [run EXCEPT ![0] = FALSE],
          init |-> init, raised |-> TRUE]
    ELSE [c0 |-> "None", c1 |-> "None", run |-> [c \in Channels |-> FALSE],
          init |-> init, raised |-> FALSE]

CleanupOutcome_nostop(c0, c1, run, init, sf) ==
    [c0 |-> "None", c1 |-> "None", run |-> run, init |-> FALSE,
     raised |-> FALSE]

\* controller.py 437-451: one try block; the first stop() that raises ends it
CleanupOutcome(c0, c1, run, init, sf) ==
    IF c0 # "None" /\ sf = "stop0"
    THEN [c0 |-> c0, c1 |-> c1, run |-> run, init |-> init, raised |-> TRUE]
    ELSE IF c1 # "None" /\ sf = "stop1"
    THEN [c0 |-> "None", c1 |-> c1, run |-> [run EXCEPT ![0] = FALSE],
          init |-> init, raised |-> TRUE]
    ELSE [c0 |-> "None", c1 |-> "None", run |-> [c \in Channels |-> FALSE],
          init |-> FALSE, raised |-> FALSE]

\* The controller holds no handle and its flag is false
Released == camera_0 = "None" /\ camera_1 = "None" /\ ~initialized

\* controller.py 435-451; also the except branch of initialize (145-150).
\* call.arg records whether the call found the controller released.
CleanupBody(sf) ==
    /\ pcMain \in {"idle", "initialize_except"} /\ lock = "free"
    /\ sf \in StopFaults
    /\ sf = "stop0" => camera_0 # "None"
    /\ sf = "stop1" => camera_1 # "None"
    /\ LET o == CleanupOutcome(camera_0, camera_1, running, initialized, sf) IN
        /\ camera_0' = o.c0
        /\ camera_1' = o.c1
        /\ running' = o.run
        /\ initialized' = o.init
        /\ stop_failed' = o.raised
    /\ lock' = "main"
    /\ pcMain' = IF pcMain = "idle" THEN "cleanup" ELSE "initialize_cleanup"
    /\ call' = IF pcMain = "idle"
               THEN [op |-> "cleanup",
                     arg |-> IF Released THEN "released" ELSE "held",
                     ch |-> 0]
               ELSE call
    /\ ret' = "None"
    /\ UNCHANGED <<manual_exposure_time, focus_step_0, focus_step_1,
                   hwExposure, ret_pair>>
    /\ UNCHANGED <<cfgVars, prevVars, wfVars>>

\* ----------------------------------------------------- capture_stereo_pair
CaptureFaults == {"none", "cam0", "cam1"}

CaptureResult_partial(init, c0, c1, f) ==
    IF ~init \/ c0 = "None" \/ f = "cam0" THEN <<"None", "None">>
    ELSE IF c1 = "None" \/ f = "cam1" THEN <<"img", "None">>
    ELSE <<"img", "img">>

\* controller.py 205-222: capture_array of channel f raises ("none": neither);
\* a handle that is None raises AttributeError
CaptureResult(init, c0, c1, f) ==
    IF ~init THEN <<"None", "None">>
    ELSE IF c0 = "None" \/ f = "cam0" THEN <<"None", "None">>
    ELSE IF c1 = "None" \/ f = "cam1" THEN <<"None", "None">>
    ELSE <<"img", "img">>

\* controller.py 200-222
CaptureBody(f) ==
    /\ pcMain = "idle" /\ lock = "free"
    /\ f \in CaptureFaults
    /\ ret_pair' = CaptureResult(initialized, camera_0, camera_1, f)
    /\ lock' = IF initialized THEN "main" ELSE "free"
    /\ pcMain' = "capture_stereo_pair"
    /\ call' = [op |-> "capture_stereo_pair", arg |-> f, ch |-> 0]
    /\ ret' = "None"
    /\ stop_failed' = FALSE
    /\ UNCHANGED <<camera_0, camera_1, initialized, manual_exposure_time,
                   focus_step_0, focus_step_1, running, hwExposure>>
    /\ UNCHANGED <<cfgVars, prevVars, wfVars>>

\* --------------------------------------------------------- adjust_exposure
\* controller.py 277-285: the ExposureTime control each device holds after
\* set_controls, when the call on channel f raises
AppliedExposure(hw, value, c0, c1, f) ==
    IF c0 = "None" \/ f = "cam0" THEN hw
    ELSE IF c1 = "None" \/ f = "cam1" THEN [hw EXCEPT ![0] = RatInt(value)]
    ELSE [c \in Channels |-> RatInt(value)]

ExposureApplyFails(c0, c1, f) ==
    c0 = "None" \/ f = "cam0" \/ c1 = "None" \/ f = "cam1"

\* controller.py 252-292
AdjustExposureBody(direction, f) ==
    /\ pcMain = "idle" /\ lock = "free"
    /\ direction \in Directions \cup {"other"}
    /\ f \in CaptureFaults
    /\ call' = [op |-> "adjust_exposure", arg |-> direction, ch |-> 0]
    /\ pcMain' = "adjust_exposure"
    /\ stop_failed' = FALSE
    /\ IF ~initialized
       THEN /\ ret' = "False"
            /\ UNCHANGED <<lock, manual_exposure_time, hwExposure>>
       ELSE /\ lock' = "main"
            /\ IF direction \notin Directions
               THEN /\ ret' = "False"
                    /\ UNCHANGED <<manual_exposure_time, hwExposure>>
               ELSE LET new == NewExposureTime(manual_exposure_time,
                                               direction, exposure_range) IN
                    /\ manual_exposure_time' = new
                    /\ IF picamera2
                       THEN /\ hwExposure' = AppliedExposure(hwExposure, new,
                                                 camera_0, camera_1, f)
                            /\ ret' = IF ExposureApplyFails(camera_0, camera_1, f)
                                      THEN "False" ELSE "True"
                       ELSE /\ hwExposure' = hwExposure
                            /\ ret' = "True"
    /\ UNCHANGED <<camera_0, camera_1, initialized, focus_step_0,
                   focus_step_1, running, ret_pair>>
    /\ UNCHANGED <<cfgVars, prevVars, wfVars>>

\* ------------------------------------------------------------ adjust_focus
FocusDirections == {"increase", "decrease"}

\* controller.py 319-323: the two step variables after the new step of
\* camera_index is stored
StoredFocusSteps_both(step_0, step_1, camera_index, new_step) ==
    <<new_step, new_step>>

StoredFocusSteps(step_0, step_1, camera_index, new_step) ==
    IF camera_index = 0 THEN <<new_step, step_1>> ELSE <<step_0, new_step>>

\* controller.py 294-345.  With focus_steps = 1 a changed step is stored
\* (320-323) before the lens position divides by focus_steps - 1 (327); the
\* ZeroDivisionError is caught at 343 and the call returns False.
AdjustFocusBody(direction, camera_index) ==
    /\ pcMain = "idle" /\ lock = "free"
    /\ direction \in FocusDirections \cup {"other"}
    /\ camera_index \in Channels
    /\ call' = [op |-> "adjust_focus", arg |-> direction, ch |-> camera_index]
    /\ pcMain' = "adjust_focus"
    /\ lock' = "main"
    /\ stop_failed' = FALSE
    /\ IF direction \notin FocusDirections
       THEN /\ ret' = "False"
            /\ UNCHANGED <<focus_step_0, focus_step_1>>
       ELSE LET current_step == FocusStep(camera_index)
                new_step == NewFocusStep(current_step, direction, focus_steps)
            IN  IF new_step = current_step
                THEN /\ ret' = "False"
                     /\ UNCHANGED <<focus_step_0, focus_step_1>>
                ELSE LET stored == StoredFocusSteps(focus_step_0,
                                        focus_step_1, camera_index, new_step)
                     IN
                     /\ focus_step_0' = stored[1]
                     /\ focus_step_1' = stored[2]
                     /\ ret' = IF focus_steps = 1 THEN "False" ELSE "True"
    /\ UNCHANGED <<camera_0, camera_1, initialized, manual_exposure_time,
                   running, hwExposure, ret_pair>>
    /\ UNCHANGED <<cfgVars, prevVars, wfVars>>

\* ------------------------------------------------- leaving the operation
\* The lock at the end of a with-block, left by return or by an exception:
\* initialize's except clause (145-150) lies outside its with-block
LockOnLeaving_held(pc) == IF pc = "initialize_raise" THEN "main" ELSE "free"

LockOnLeaving(pc) == "free"

\* The end of the with-block (the lock is released) and the return to the
\* caller; a failed initialize goes on to its except branch (145-150).
Return ==
    /\ pcMain \notin {"idle", "initialize_except"}
    /\ lock' = LockOnLeaving(pcMain)
    /\ pcMain' = IF pcMain = "initialize_raise" THEN "initialize_except"
                 ELSE "idle"
    /\ ret' = IF pcMain = "initialize_cleanup" THEN "False" ELSE ret
    /\ UNCHANGED <<camera_0, camera_1, initialized, manual_exposure_time,
                   focus_step_0, focus_step_1, running, hwExposure>>
    /\ UNCHANGED <<call, ret_pair, stop_failed>>
    /\ UNCHANGED <<cfgVars, prevVars, wfVars>>

\* ------------------------------------------- PreviewUpdateThread.run
\* enhanced_main_window.py 48-50: the loop finds is_initialized() true. The
\* thread is started by the window, which is built after initialize() has
\* returned (main.py 77, 128).
PreviewPoll ==
    /\ pcPreview = "idle"
    /\ initialized
    /\ pcMain \notin {"initialize", "initialize_raise"}
    /\ pcPreview' = "called"
    /\ UNCHANGED <<frame, cfgVars, camVars, mainVars, wfVars, threadVars>>

\* controller.py 354-355: the check at the head of get_preview_frame
PreviewCheck ==
    /\ pcPreview = "called"
    /\ pcPreview' = IF initialized THEN "checked" ELSE "idle"
    /\ frame' = IF initialized THEN frame ELSE "None"
    /\ UNCHANGED <<cfgVars, camVars, mainVars, wfVars, threadVars>>

\* controller.py 357-384: what get_preview_frame hands back for the handle
\* it read and the outcome of capture_array on it ("frame", "None", or
\* "raise"); capture_array on a handle that is None raises AttributeError
PreviewFrame_propagate(handle, outcome) ==
    IF handle = "None" \/ outcome = "raise" THEN "raise" ELSE outcome

PreviewFrame(handle, outcome) ==
    IF handle = "None" \/ outcome = "raise" THEN "None" ELSE outcome

\* controller.py 357-364: the handle is read and capture_array entered, with
\* no lock taken; a handle that is None raises and None is returned (382-384)
PreviewRead ==
    /\ pcPreview = "checked"
    /\ pcPreview' = IF camera_0 = "None" THEN "idle" ELSE "reading"
    /\ frame' = IF camera_0 = "None" THEN PreviewFrame(camera_0, "raise")
                ELSE frame
    /\ UNCHANGED <<cfgVars, camVars, mainVars, wfVars, threadVars>>

\* controller.py 364-384: capture_array returns a frame, returns None or
\* raises
PreviewReadDone(outcome) ==
    /\ pcPreview = "reading"
    /\ outcome \in {"frame", "None", "raise"}
    /\ pcPreview' = "idle"
    /\ frame' = PreviewFrame("Camera", outcome)
    /\ UNCHANGED <<cfgVars, camVars, mainVars, wfVars, threadVars>>

\* ------------------------------------------------------ EnhancedMainWindow
\* The states in which the main window takes operator input; in the others a
\* call is in progress or a modal dialog is open.
Interactive == {"main_input", "positioning"}

\* enhanced_main_window.py 773-782: the current values after
\* _update_current_values; a ValueError from float() leaves the assignments
\* that follow it undone
UpdateCurrentValues(pi, bi, fi, ti, cf, ct) ==
    LET pf == ParseFloat(fi)
        pt == ParseFloat(ti)
    IN  [project    |-> Strip(pi, {" "}),
         borehole   |-> Strip(bi, {" "}),
         depth_from |-> IF pf.ok THEN pf.val ELSE cf,
         depth_to   |-> IF pf.ok /\ pt.ok THEN pt.val ELSE ct]

\* enhanced_main_window.py 755-767, on the updated values
ValidateInputs(cur) ==
    /\ cur.project # <<>>
    /\ cur.borehole # <<>>
    /\ ~FloatGeq(cur.depth_from, cur.depth_to)

SetCurrent(cur) ==
    /\ current_project' = cur.project
    /\ current_borehole' = cur.borehole
    /\ current_depth_from' = cur.depth_from
    /\ current_depth_to' = cur.depth_to

\* The texts an operator enters
ProjectTexts == {<<>>, <<"P">>}
BoreholeTexts == {<<>>, <<" ", "B", "/", "1">>}
DepthFromTexts == {NumText(0), NanText}
DepthToTexts == {NumText(500), BadText}
InputFields == {"project", "borehole", "depth_from", "depth_to"}
InputTexts(field) ==
    IF field = "project" THEN ProjectTexts
    ELSE IF field = "borehole" THEN BoreholeTexts
    ELSE IF field = "depth_from" THEN DepthFromTexts
    ELSE DepthToTexts

\* enhanced_main_window.py 746-748, on textChanged of one input
InputChanged(field, text) ==
    /\ workflow_state \in Interactive
    /\ field \in InputFields
    /\ \/ field = "project" /\ text # project_input
          /\ project_input' = text
          /\ UNCHANGED <<borehole_input, depth_from_input, depth_to_input>>
       \/ field = "borehole" /\ text # borehole_input
          /\ borehole_input' = text
          /\ UNCHANGED <<project_input, depth_from_input, depth_to_input>>
       \/ field = "depth_from" /\ text # depth_from_input
          /\ depth_from_input' = text
          /\ UNCHANGED <<project_input, borehole_input, depth_to_input>>
       \/ field = "depth_to" /\ text # depth_to_input
          /\ depth_to_input' = text
          /\ UNCHANGED <<project_input, borehole_input, depth_from_input>>
    /\ SetCurrent(UpdateCurrentValues(project_input', borehole_input',
                                      depth_from_input', depth_to_input',
                                      current_depth_from, current_depth_to))
    /\ last_event' = "input_changed"
    /\ UNCHANGED <<workflow_state, captured_images, preview_dialog, storeVars,
                   capture_count, accepted, uiCfgVars>>
    /\ UNCHANGED <<cfgVars, camVars, mainVars, prevVars>>

\* enhanced_main_window.py 654-657: the state _return_to_positioning sets
ReturnToPositioning_main == "main_input"

ReturnToPositioning == "positioning"

\* enhanced_main_window.py 496-521: OK in MainInput or Positioning. In
\* Positioning with valid inputs the handler enters Capturing and calls
\* capture_stereo_pair; CaptureReturns is the rest of the handler.
OkClicked ==
    /\ workflow_state \in Interactive
    /\ LET cur == UpdateCurrentValues(project_input, borehole_input,
                                      depth_from_input, depth_to_input,
                                      current_depth_from, current_depth_to)
       IN  /\ SetCurrent(cur)
           /\ IF ~ValidateInputs(cur)
              THEN /\ last_event' = "ok_invalid"
                   /\ UNCHANGED workflow_state
              ELSE IF workflow_state = "main_input"
              THEN /\ workflow_state' = "positioning"
                   /\ last_event' = "ok_main_input"
              ELSE /\ capture_count < MaxCaptures
                   /\ workflow_state' = "capturing"
                   /\ last_event' = "capture_invoked"
    /\ UNCHANGED <<inputVars, captured_images, preview_dialog, storeVars,
                   capture_count, accepted, uiCfgVars>>
    /\ UNCHANGED <<cfgVars, camVars, mainVars, prevVars>>

\* enhanced_main_window.py 528-536: captured_images after a capture that
\* returned two images, both of capture number k
PendingPair_keep2(images, k) ==
    IF images = <<>> THEN <<k, k>> ELSE <<k, images[2]>>

PendingPair(images, k) == <<k, k>>

\* enhanced_main_window.py 528-557: capture_stereo_pair returns (channel f
\* raised, "none": neither); on a pair the review of channel 1 opens, unless
\* creating the PreviewDialog raises (570-572)
CaptureReturns(f, dialog_raises) ==
    /\ workflow_state = "capturing"
    /\ f \in CaptureFaults
    /\ LET pair == CaptureResult(initialized, camera_0, camera_1, f)
       IN  IF pair[1] = "None" \/ pair[2] = "None"
           THEN /\ ~dialog_raises
                /\ workflow_state' = ReturnToPositioning
                /\ last_event' = "capture_failed"
                /\ UNCHANGED <<captured_images, capture_count,
                               preview_dialog, accepted>>
           ELSE /\ captured_images' = PendingPair(captured_images,
                                                  capture_count + 1)
                /\ accepted' = {}
                /\ capture_count' = capture_count + 1
                /\ IF dialog_raises
                   THEN /\ ~preview_dialog
                        /\ workflow_state' = ReturnToPositioning
                        /\ last_event' = "review_failed"
                        /\ UNCHANGED preview_dialog
                   ELSE /\ workflow_state' = "reviewing_cam1"
                        /\ preview_dialog' = TRUE
                        /\ last_event' = "captured"
    /\ UNCHANGED <<inputVars, currentVars, storeVars, uiCfgVars>>
    /\ UNCHANGED <<cfgVars, camVars, mainVars, prevVars>>

\* enhanced_main_window.py 648-652: captured_images after _discard_images
DiscardImages_keep(images) == images

DiscardImages(images) == <<>>

\* enhanced_main_window.py 565-568 and 587-590: where the answer given in the
\* review of a channel leads
ReviewOutcome_skip2(channel, camera_accepted) ==
    IF ~camera_accepted THEN "discard" ELSE "saving"

ReviewOutcome(channel, camera_accepted) ==
    IF ~camera_accepted THEN "discard"
    ELSE IF channel = 1 THEN "reviewing_cam2" ELSE "saving"

\* enhanced_main_window.py 559-568 (channel 1) and 577-602 (channel 2): the
\* operator answers the modal preview; show_image returns False also when it
\* fails (preview_dialog.py 199-202)
ReviewAnswered(channel, camera_accepted) ==
    /\ \/ channel = 1 /\ workflow_state = "reviewing_cam1"
       \/ channel = 2 /\ workflow_state = "reviewing_cam2"
    /\ camera_accepted \in BOOLEAN
    /\ LET outcome == ReviewOutcome(channel, camera_accepted)
       IN  IF outcome = "discard"
           THEN /\ captured_images' = DiscardImages(captured_images)
                /\ workflow_state' = ReturnToPositioning
                /\ last_event' = IF channel = 1 THEN "reject1" ELSE "reject2"
                /\ accepted' = {}
           ELSE /\ workflow_state' = outcome
                /\ accepted' = accepted \cup {channel}
                /\ last_event' = IF channel = 1 THEN "accept1" ELSE "accept2"
                /\ UNCHANGED captured_images
    /\ UNCHANGED <<inputVars, currentVars, preview_dialog, storeVars,
                   capture_count, uiCfgVars>>
    /\ UNCHANGED <<cfgVars, camVars, mainVars, prevVars>>

\* ---------------------------------------------------------- specifications
\* The whole controller with the preview thread, one small configuration.
InitCamera ==
    \E pic \in BOOLEAN : Construct(<<10000, 15000>>, 2, 1, pic)

NextCamera ==
    \/ \E f \in InitFaults : InitializeBody(f)
    \/ \E f \in CaptureFaults : CaptureBody(f)
    \/ \E sf \in StopFaults : CleanupBody(sf)
    \/ \E d \in Directions \cup {"other"}, f \in CaptureFaults :
          AdjustExposureBody(d, f)
    \/ \E d \in FocusDirections \cup {"other"}, c \in Channels :
          AdjustFocusBody(d, c)
    \/ Return
    \/ PreviewPoll
    \/ PreviewCheck
    \/ PreviewRead
    \/ \E o \in {"frame", "None", "raise"} : PreviewReadDone(o)

SpecCamera == InitCamera /\ [][NextCamera]_vars

\* The focus control under every focus configuration explored.
FocusConfigs ==
    {<<fs, dfs>> \in (1..MaxFocusSteps) \X {0, 1, FallbackFocusStep} : TRUE}

InitFocus ==
    \E fc \in FocusConfigs, pic \in BOOLEAN :
        Construct(<<10000, 15000>>, fc[1], fc[2], pic)

NextFocus ==
    \/ \E f \in InitFaults : InitializeBody(f)
    \/ \E sf \in StopFaults : CleanupBody(sf)
    \/ \E d \in FocusDirections \cup {"other"}, c \in Channels :
          AdjustFocusBody(d, c)
    \/ Return

SpecFocus == InitFocus /\ [][NextFocus]_vars

\* The exposure control under ranges that contain, lie below and lie above
\* the constructor's 10000 microseconds.
ExposureRanges ==
    {<<4000, 20000>>, <<2000, 5000>>, <<20000, 60000>>, <<10000, 15000>>}

InitExposure ==
    \E r \in ExposureRanges, pic \in BOOLEAN : Construct(r, 2, 1, pic)

NextExposure ==
    \/ \E f \in InitFaults : InitializeBody(f)
    \/ \E sf \in StopFaults : CleanupBody(sf)
    \/ \E d \in Directions \cup {"other"}, f \in CaptureFaults :
          AdjustExposureBody(d, f)
    \/ Return

SpecExposure == InitExposure /\ [][NextExposure]_vars

\* An initialized controller on which the operator presses only BRIGHTER.
\* It starts after a successful initialize and k 'darker' calls.
MaxDarker == 4

RECURSIVE DarkerTimes(_, _)
DarkerTimes(k, range) ==
    IF k = 0 THEN Rat(InitialExposureTime, 1)
    ELSE NewExposureTime(DarkerTimes(k - 1, range), "darker", range)

InitBrighter ==
    \E r \in ExposureRanges, k \in 0..MaxDarker :
        /\ WindowInit(500, 50)
        /\ exposure_range = r
        /\ focus_steps = 2
        /\ default_focus_step = 1
        /\ picamera2 = TRUE
        /\ camera_0 = "Camera"
        /\ camera_1 = "Camera"
        /\ initialized = TRUE
        /\ manual_exposure_time = DarkerTimes(k, r)
        /\ focus_step_0 = 1
        /\ focus_step_1 = 1
        /\ lock = "free"
        /\ running = [c \in Channels |-> TRUE]
        /\ hwExposure = [c \in Channels |->
                            IF k = 0 THEN 0 ELSE RatInt(DarkerTimes(k, r))]
        /\ pcMain = "idle"
        /\ call = IF k = 0 THEN [op |-> "initialize", arg |-> "none", ch |-> 0]
                  ELSE [op |-> "adjust_exposure", arg |-> "darker", ch |-> 0]
        /\ ret = "True"
        /\ ret_pair = <<"None", "None">>
        /\ stop_failed = FALSE
        /\ pcPreview = "idle"
        /\ frame = "None"
        /\ PreviewThreadLoops

NextBrighter ==
    \/ \E f \in CaptureFaults : AdjustExposureBody("brighter", f)
    \/ Return

\* the operator keeps pressing and every call returns
SpecBrighter == InitBrighter /\ [][NextBrighter]_vars /\ WF_vars(NextBrighter)

\* enhanced_main_window.py 659-672: the depth texts after
\* _advance_to_next_segment
AdvanceToNextSegment(depth_to, segment_length) ==
    [from_text |-> Format2f(depth_to),
     to_text   |-> Format2f(FloatAdd(depth_to, segment_length))]

\* enhanced_main_window.py 624: the save counts as successful on the result
\* of save_stereo_pair alone
SaveSucceeded_backup(saved, backup) == saved.success /\ backup.usb_success

SaveSucceeded_always(saved, backup) == TRUE

SaveSucceeded(saved, backup) == saved.success

\* enhanced_main_window.py 608-646: _save_images from the generated path on;
\* f is the step of save_stereo_pair that raises, u the state of the backup.
\* The two setText calls of _advance_to_next_segment each run
\* _update_current_values; both texts are numbers, so the second leaves the
\* current values equal to the two new texts.
SaveImages(f, u) ==
    /\ workflow_state = "saving"
    /\ captured_images # <<>>
    /\ f \in SaveFaults /\ u \in UsbOutcomes
    /\ LET generated == GenerateFilePath(current_project, current_borehole,
                                         current_depth_from, current_depth_to)
           saved == SaveStereoPair(files, captured_images, generated, f)
           backup == SaveImagesToStorage(saved.files, usb_files, generated,
                                         <<1, 2>>, u)
           next == AdvanceToNextSegment(current_depth_to,
                                        default_segment_length)
       IN  /\ files' = saved.files
           /\ IF saved.success
              THEN /\ usb_files' = backup.usb_files
                   /\ storage_result' =
                          [internal_success |-> backup.internal_success,
                           usb_success      |-> backup.usb_success,
                           internal_paths   |-> backup.internal_paths,
                           usb_paths        |-> backup.usb_paths,
                           errors           |-> backup.errors]
              ELSE UNCHANGED <<usb_files, storage_result>>
           /\ IF SaveSucceeded(saved, backup)
              THEN /\ depth_from_input' = next.from_text
                   /\ depth_to_input' = next.to_text
                   /\ SetCurrent(UpdateCurrentValues(
                          project_input, borehole_input,
                          next.from_text, next.to_text,
                          current_depth_from, current_depth_to))
                   /\ last_event' = "saved"
              ELSE /\ last_event' = "save_failed"
                   /\ UNCHANGED <<depth_from_input, depth_to_input,
                                  currentVars>>
    /\ workflow_state' = ReturnToPositioning
    /\ captured_images' = <<>>         \* the finally clause, line 646
    /\ accepted' = {}
    /\ UNCHANGED <<project_input, borehole_input, preview_dialog,
                   capture_count, uiCfgVars, base_path, spaceVars>>
    /\ UNCHANGED <<cfgVars, camVars, mainVars, prevVars>>

\* enhanced_main_window.py 674-682: NO, which _update_workflow_state enables
\* in Positioning only (466-482), so the branch of line 682 is not taken
NoClicked ==
    /\ workflow_state = "positioning"
    /\ workflow_state' = "main_input"
    /\ last_event' = "no_clicked"
    /\ UNCHANGED <<inputVars, currentVars, captured_images, preview_dialog,
                   storeVars, capture_count, accepted, uiCfgVars>>
    /\ UNCHANGED <<cfgVars, camVars, mainVars, prevVars>>

\* max(0, x): Python keeps the first argument unless the second compares
\* greater, so max(0, nan) is 0
MaxZero(x) == IF FloatLess(Num(0), x) THEN x ELSE Num(0)

\* enhanced_main_window.py 689 and 700: the new depth_to of + and -
AdjustedDepthTo(current_to, step, button) ==
    IF button = "plus" THEN FloatAdd(current_to, step)
    ELSE MaxZero(FloatAdd(current_to, 0 - step))

\* enhanced_main_window.py 684-704: the + and - buttons
PlusMinusClicked(button) ==
    /\ workflow_state \in Interactive
    /\ button \in {"plus", "minus"}
    /\ LET parsed == ParseFloat(depth_to_input)
           new_to == AdjustedDepthTo(parsed.val, segment_adjustment_step,
                                     button)
       IN  IF ~parsed.ok
           THEN /\ last_event' = "depth_adjusted"
                /\ UNCHANGED <<depth_to_input, currentVars>>
           ELSE /\ new_to.nan \/ new_to.v <= MaxDepth
                /\ depth_to_input' = Format2f(new_to)
                /\ SetCurrent(UpdateCurrentValues(
                       project_input, borehole_input, depth_from_input,
                       depth_to_input', current_depth_from, current_depth_to))
                /\ last_event' = "depth_adjusted"
    /\ UNCHANGED <<project_input, borehole_input, depth_from_input,
                   workflow_state, captured_images, preview_dialog, storeVars,
                   capture_count, accepted, uiCfgVars>>
    /\ UNCHANGED <<cfgVars, camVars, mainVars, prevVars>>

\* enhanced_main_window.py 720-731: FOCUS opens the modal focus dialog
FocusClicked ==
    /\ workflow_state \in Interactive
    /\ workflow_state' = "focus_mode"
    /\ last_event' = IF workflow_state = "main_input"
                     THEN "focus_opened_in_main_input"
                     ELSE "focus_opened_in_positioning"
    /\ UNCHANGED <<inputVars, currentVars, captured_images, preview_dialog,
                   storeVars, capture_count, accepted, uiCfgVars>>
    /\ UNCHANGED <<cfgVars, camVars, mainVars, prevVars>>

\* enhanced_main_window.py 733-744: the focus dialog is closed
FocusDialogClosed ==
    /\ workflow_state = "focus_mode"
    /\ workflow_state' = "positioning"
    /\ last_event' = "focus_clicked"
    /\ UNCHANGED <<inputVars, currentVars, captured_images, preview_dialog,
                   storeVars, capture_count, accepted, uiCfgVars>>
    /\ UNCHANGED <<cfgVars, camVars, mainVars, prevVars>>

\* enhanced_main_window.py 66-96: the window is handed a controller, on
\* which initialize() has succeeded or has failed
InitWorkflow ==
    /\ \E ok \in BOOLEAN :
        /\ camera_0 = IF ok THEN "Camera" ELSE "None"
        /\ camera_1 = IF ok THEN "Camera" ELSE "None"
        /\ initialized = ok
        /\ running = [c \in Channels |-> ok]
        /\ hwExposure = [c \in Channels |-> 0]
    /\ exposure_range = <<10000, 15000>>
    /\ focus_steps = 2
    /\ default_focus_step = 1
    /\ picamera2 = TRUE
    /\ manual_exposure_time = Rat(InitialExposureTime, 1)
    /\ focus_step_0 = 1
    /\ focus_step_1 = 1
    /\ lock = "free"
    /\ pcMain = "idle"
    /\ call = NoCall
    /\ ret = "None"
    /\ ret_pair = <<"None", "None">>
    /\ stop_failed = FALSE
    /\ pcPreview = "idle"
    /\ frame = "None"
    /\ PreviewThreadLoops
    /\ WindowInit(500, 500)

NextWorkflow ==
    \/ \E field \in InputFields : \E text \in InputTexts(field) :
          InputChanged(field, text)
    \/ OkClicked
    \/ \E f \in CaptureFaults, r \in BOOLEAN : CaptureReturns(f, r)
    \/ \E channel \in {1, 2}, camera_accepted \in BOOLEAN :
          ReviewAnswered(channel, camera_accepted)
    \/ \E f \in SaveFaults, u \in {"no_drive", "ok"} : SaveImages(f, u)
    \/ NoClicked
    \/ \E button \in {"plus", "minus"} : PlusMinusClicked(button)
    \/ FocusClicked
    \/ FocusDialogClosed

SpecWorkflow == InitWorkflow /\ [][NextWorkflow]_vars

\* ------------------------------------------------ saving and advancing
\* config['ui']['default_segment_length'] (mm) and the texts the operator
\* types while logging a borehole: depths to the millimetre, each segment
\* saved with the backup drive absent, healthy or failing
SegmentLengths == {500, 1000}
SaveFields == {"project", "borehole", "depth_to"}
SaveTexts(field) ==
    IF field = "project" THEN {<<"P">>}
    ELSE IF field = "borehole" THEN {<<"B">>}
    ELSE {NumText(500), NumText(503)}

\* the controller the window is handed, initialize() having succeeded
CameraReady ==
    /\ camera_0 = "Camera"
    /\ camera_1 = "Camera"
    /\ initialized = TRUE
    /\ running = [c \in Channels |-> TRUE]
    /\ hwExposure = [c \in Channels |-> 0]
    /\ exposure_range = <<10000, 15000>>
    /\ focus_steps = 2
    /\ default_focus_step = 1
    /\ picamera2 = TRUE
    /\ manual_exposure_time = Rat(InitialExposureTime, 1)
    /\ focus_step_0 = 1
    /\ focus_step_1 = 1
    /\ lock = "free"
    /\ pcMain = "idle"
    /\ call = NoCall
    /\ ret = "None"
    /\ ret_pair = <<"None", "None">>
    /\ stop_failed = FALSE
    /\ pcPreview = "idle"
    /\ frame = "None"
    /\ PreviewThreadLoops

\* enhanced_main_window.py 706-718: BRIGHTER and DARKER call adjust_exposure
\* and log the outcome; the buttons answer whenever the window is waiting
\* for the operator
ExposureClicked(direction, f) ==
    /\ workflow_state \in Interactive
    /\ direction \in Directions
    /\ AdjustExposureBody(direction, f)

InitSave ==
    /\ CameraReady
    /\ \E segment_length \in SegmentLengths : WindowInit(segment_length, 500)

NextSave ==
    \/ \E field \in SaveFields : \E text \in SaveTexts(field) :
          InputChanged(field, text)
    \/ OkClicked
    \/ \E f \in CaptureFaults, r \in BOOLEAN : CaptureReturns(f, r)
    \/ \E channel \in {1, 2}, camera_accepted \in BOOLEAN :
          ReviewAnswered(channel, camera_accepted)
    \/ \E f \in SaveFaults, u \in UsbOutcomes : SaveImages(f, u)
    \/ \E button \in {"plus", "minus"} : PlusMinusClicked(button)

SpecSave == InitSave /\ [][NextSave]_vars

\* The whole button row on a ready camera: what SpecSave does, and also
\* NO, FOCUS, BRIGHTER and DARKER
InitRange ==
    /\ CameraReady
    /\ WindowInit(500, 500)

NextRange ==
    \/ NextSave
    \/ NoClicked
    \/ FocusClicked
    \/ FocusDialogClosed
    \/ \E direction \in Directions, f \in {"none", "cam1"} :
          ExposureClicked(direction, f)
    \/ Return

SpecRange == InitRange /\ [][NextRange]_vars

\* ------------------------------------------------- PreviewUpdateThread
\* enhanced_main_window.py 428-433: _start_preview, on an initialized
\* camera, creates the thread (running = False, line 41) and calls start()
ThreadStart ==
    /\ pcThread = "created" /\ pcStop = "idle"
    /\ initialized
    /\ pcThread' = "started"
    /\ UNCHANGED <<thread_running, pcStop, pcPreview, frame>>
    /\ UNCHANGED <<cfgVars, camVars, mainVars, wfVars>>

\* enhanced_main_window.py 45: the first statement of run()
ThreadRun ==
    /\ pcThread = "started"
    /\ thread_running' = TRUE
    /\ pcThread' = "loop"
    /\ UNCHANGED <<pcStop, pcPreview, frame>>
    /\ UNCHANGED <<cfgVars, camVars, mainVars, wfVars>>

\* enhanced_main_window.py 46: while self.running
ThreadLoopTest ==
    /\ pcThread = "loop"
    /\ pcThread' = IF thread_running THEN "body" ELSE "finished"
    /\ UNCHANGED <<thread_running, pcStop, pcPreview, frame>>
    /\ UNCHANGED <<cfgVars, camVars, mainVars, wfVars>>

\* enhanced_main_window.py 47-51: one pass of the loop body, the poll of
\* get_preview_frame taken as a whole, and msleep(100)
ThreadIterate(outcome) ==
    /\ pcThread = "body"
    /\ outcome \in {"frame", "None", "raise"}
    /\ frame' = IF initialized THEN PreviewFrame(camera_0, outcome) ELSE frame
    /\ pcThread' = "loop"
    /\ UNCHANGED <<thread_running, pcStop, pcPreview>>
    /\ UNCHANGED <<cfgVars, camVars, mainVars, wfVars>>

\* enhanced_main_window.py 53-56, called by closeEvent (840-841) on the
\* thread _start_preview started: running = False, then wait()
StopCalled ==
    /\ pcStop = "idle"
    /\ pcThread # "created"
    /\ thread_running' = FALSE
    /\ pcStop' = "waiting"
    /\ UNCHANGED <<pcThread, pcPreview, frame>>
    /\ UNCHANGED <<cfgVars, camVars, mainVars, wfVars>>

\* QThread.wait() returns once run() has returned
StopReturns ==
    /\ pcStop = "waiting"
    /\ pcThread = "finished"
    /\ pcStop' = "returned"
    /\ UNCHANGED <<thread_running, pcThread, pcPreview, frame>>
    /\ UNCHANGED <<cfgVars, camVars, mainVars, wfVars>>

\* the steps the preview thread takes once started
ThreadStep ==
    \/ ThreadRun
    \/ ThreadLoopTest
    \/ \E o \in {"frame", "None", "raise"} : ThreadIterate(o)

\* The window on an initialized camera with the preview thread just
\* created; the operator types until the window is closed
InitThread ==
    /\ camera_0 = "Camera"
    /\ camera_1 = "Camera"
    /\ initialized = TRUE
    /\ running = [c \in Channels |-> TRUE]
    /\ hwExposure = [c \in Channels |-> 0]
    /\ exposure_range = <<10000, 15000>>
    /\ focus_steps = 2
    /\ default_focus_step = 1
    /\ picamera2 = TRUE
    /\ manual_exposure_time = Rat(InitialExposureTime, 1)
    /\ focus_step_0 = 1
    /\ focus_step_1 = 1
    /\ lock = "free"
    /\ pcMain = "idle"
    /\ call = NoCall
    /\ ret = "None"
    /\ ret_pair = <<"None", "None">>
    /\ stop_failed = FALSE
    /\ pcPreview = "idle"
    /\ frame = "None"
    /\ thread_running = FALSE
    /\ pcThread = "created"
    /\ pcStop = "idle"
    /\ WindowInit(500, 500)

NextThread ==
    \/ ThreadStart
    \/ ThreadStep
    \/ StopCalled
    \/ StopReturns
    \/ /\ pcStop = "idle"
       /\ \E field \in SaveFields : \E text \in SaveTexts(field) :
             InputChanged(field, text)

\* the scheduler runs the started thread, and wait() returns when it can
SpecThread ==
    /\ InitThread
    /\ [][NextThread]_vars
    /\ WF_vars(ThreadStep)
    /\ WF_vars(StopReturns)

\* The capture cycle with its calls returning and its dialogs answered:
\* capture_stereo_pair returns to _capture_stereo_pair, the operator answers
\* the modal preview of each channel, save_stereo_pair returns to
\* _save_images (the pair written, or the second write failed; no backup
\* drive)
CaptureCallReturns ==
    \E f \in CaptureFaults, r \in BOOLEAN : CaptureReturns(f, r)

ReviewIsAnswered ==
    \E channel \in {1, 2}, camera_accepted \in BOOLEAN :
        ReviewAnswered(channel, camera_accepted)

SaveCallReturns ==
    \E f \in {"none", "write2"} : SaveImages(f, "no_drive")

\* the three wait in different workflow states, so at most one is enabled
CycleStep == CaptureCallReturns \/ ReviewIsAnswered \/ SaveCallReturns

NextCycle ==
    \/ \E field \in SaveFields : \E text \in SaveTexts(field) :
          InputChanged(field, text)
    \/ OkClicked
    \/ CaptureCallReturns
    \/ ReviewIsAnswered
    \/ SaveCallReturns
    \/ NoClicked
    \/ FocusClicked
    \/ FocusDialogClosed

SpecCycle == InitRange /\ [][NextCycle]_vars /\ WF_vars(CycleStep)

\* ------------------------------------------------- generate_file_path
\* The names an operator can type: every text over NameChars (the nine
\* characters _sanitize_filename replaces, a blank, a dot and a letter),
\* project and borehole together at most MaxNameLen characters long
MaxNameLen == 3
NameChars == InvalidChars \cup {" ", ".", "a"}
Names(n) == UNION {[1..k -> NameChars] : k \in 0..n}
PathDepths == {<<NumText(0), NumText(500)>>, <<NanText, NumText(0 - 12346)>>}

\* a project and a borehole as operators name them: "My Project", "BH/1"
MyProject == <<"M", "y", " ", "P", "r", "o", "j", "e", "c", "t">>
BH1 == <<"B", "H", "/", "1">>

\* the window with the inputs typed, the current values following them
\* (_update_current_values), and generate_file_path not yet called
InitPath ==
    /\ CameraReady
    /\ default_segment_length = 500
    /\ segment_adjustment_step = 500
    /\ workflow_state = "main_input"
    /\ \E pi \in Names(MaxNameLen) \cup {MyProject} :
       \E bi \in (IF pi = MyProject THEN {BH1}
                  ELSE Names(MaxNameLen - Len(pi))) :
          /\ project_input = pi
          /\ borehole_input = bi
          /\ current_project = Strip(pi, {" "})
          /\ current_borehole = Strip(bi, {" "})
    /\ \E d \in PathDepths :
          /\ depth_from_input = d[1]
          /\ depth_to_input = d[2]
          /\ current_depth_from = ParseFloat(d[1]).val
          /\ current_depth_to = ParseFloat(d[2]).val
    /\ captured_images = <<>>
    /\ preview_dialog = FALSE
    /\ files = {}
    /\ usb_files = {}
    /\ storage_result = NoResult
    /\ base_path = NoPath
    /\ StorageInit(DefaultLowMB, DefaultCriticalMB)
    /\ capture_count = 0
    /\ accepted = {}
    /\ last_event = "input_changed"

\* manager.py 121-140: generate_file_path called on the current values, as
\* _save_images calls it (enhanced_main_window.py 610-615)
GenerateFilePathCalled ==
    /\ base_path = NoPath
    /\ base_path' = GenerateFilePath(current_project, current_borehole,
                                     current_depth_from, current_depth_to)
    /\ last_event' = "path_generated"
    /\ UNCHANGED <<uiCfgVars, workflow_state, inputVars, currentVars,
                   captured_images, preview_dialog, files, usb_files,
                   storage_result, spaceVars, capture_count, accepted>>
    /\ UNCHANGED <<cfgVars, camVars, mainVars, prevVars>>

NextPath == GenerateFilePathCalled

SpecPath == InitPath /\ [][NextPath]_vars

\* ------------------------------------------------- exceptions and faults
\* Every statement of a public operation that touches the device or the
\* filesystem is a fault point.  Its handlers are the except clauses that
\* enclose it, innermost first, in the operation and in the methods it was
\* called through:
\*   "return"   the clause returns a result,
\*   "continue" the clause logs or records the error and execution goes on,
\*   "reraise"  the clause ends in a bare raise,
\*   "retry"    the clause makes another attempt, which the same fault makes
\*              raise out of the clause.
\* needs_init: the statement lies behind an early return taken when the
\* controller is not initialized.  returns: what the caller gets when the
\* fault strikes ("value": the operation's ordinary dictionary, list, tuple,
\* number or text).

\* manager.py 67-72: the try/except of get_disk_space around disk_usage
DiskUsageHandlers_none == <<>>

DiskUsageHandlers == <<"return">>

\* manager.py 44-57: the try/except of get_available_usb_drives
UsbDetectHandlers == <<"continue">>

FaultPoint(op, fault, handlers, needs_init, returns) ==
    [op |-> op, fault |-> fault, handlers |-> handlers,
     needs_init |-> needs_init, returns |-> returns]

\* controller.py
ControllerFaultPoints ==
    { FaultPoint("initialize", "create", <<"reraise", "return">>,
                 FALSE, "False"),
      FaultPoint("initialize", "configure",
                 <<"retry", "retry", "reraise", "reraise", "return">>,
                 FALSE, "False"),
      FaultPoint("initialize", "start", <<"reraise", "return">>,
                 FALSE, "False"),
      FaultPoint("initialize", "rollback_stop", <<"return">>, FALSE, "False"),
      FaultPoint("capture_stereo_pair", "capture_array", <<"return">>,
                 TRUE, "None"),
      FaultPoint("save_stereo_pair", "mkdir", <<"return">>, FALSE, "False"),
      FaultPoint("save_stereo_pair", "image_save", <<"return">>,
                 FALSE, "False"),
      FaultPoint("adjust_exposure", "set_controls", <<"return", "return">>,
                 TRUE, "False"),
      FaultPoint("adjust_focus", "set_controls", <<"continue", "return">>,
                 FALSE, "True"),
      FaultPoint("set_focus_step", "set_controls", <<"continue", "return">>,
                 FALSE, "True"),
      FaultPoint("get_preview_frame", "capture_array", <<"return">>,
                 TRUE, "None"),
      FaultPoint("get_preview_frame", "thumbnail", <<"return">>,
                 TRUE, "None"),
      FaultPoint("cleanup", "stop", <<"return">>, FALSE, "None") }

\* manager.py
StorageFaultPoints ==
    { FaultPoint("get_available_usb_drives", "disk_partitions",
                 UsbDetectHandlers, FALSE, "value"),
      FaultPoint("get_available_usb_drives", "os_access",
                 UsbDetectHandlers, FALSE, "value"),
      FaultPoint("get_disk_space", "disk_usage", DiskUsageHandlers,
                 FALSE, "value"),
      FaultPoint("check_storage_space", "disk_usage", DiskUsageHandlers,
                 FALSE, "value"),
      FaultPoint("check_storage_space", "disk_partitions", UsbDetectHandlers,
                 FALSE, "value"),
      FaultPoint("save_images_to_storage", "exists", <<"continue">>,
                 FALSE, "value"),
      FaultPoint("save_images_to_storage", "disk_partitions",
                 UsbDetectHandlers \o <<"continue">>, FALSE, "value"),
      FaultPoint("save_images_to_storage", "mkdir",
                 <<"continue", "continue">>, FALSE, "value"),
      FaultPoint("save_images_to_storage", "copy2",
                 <<"continue", "continue">>, FALSE, "value"),
      FaultPoint("cleanup_old_files", "walk", <<"continue">>,
                 FALSE, "value"),
      FaultPoint("cleanup_old_files", "getmtime",
                 <<"continue", "continue">>, FALSE, "value"),
      FaultPoint("cleanup_old_files", "remove",
                 <<"continue", "continue">>, FALSE, "value"),
      FaultPoint("get_storage_summary", "disk_usage", DiskUsageHandlers,
                 FALSE, "value"),
      FaultPoint("get_storage_summary", "disk_partitions", UsbDetectHandlers,
                 FALSE, "value") }

\* the operations that touch neither the device nor the filesystem
PureOperations ==
    {"is_initialized", "get_focus_step", "get_camera_status",
     "generate_file_path"}

FaultPoints == ControllerFaultPoints \cup StorageFaultPoints

PublicOperations == {pt.op : pt \in FaultPoints} \cup PureOperations

\* what a call returns when nothing raises
OrdinaryResult(op, init) ==
    IF op \in {"initialize", "save_stereo_pair", "adjust_focus",
               "set_focus_step"} THEN "True"
    ELSE IF op = "adjust_exposure" THEN (IF init THEN "True" ELSE "False")
    ELSE IF op = "cleanup" THEN "None"
    ELSE IF op \in {"capture_stereo_pair", "get_preview_frame"}
    THEN (IF init THEN "value" ELSE "None")
    ELSE "value"

\* an exception leaves the operation when no enclosing clause absorbs it
Escapes(handlers) ==
    \A i \in 1..Len(handlers) : handlers[i] \in {"reraise", "retry"}

\* what the caller of op gets when the fault named strikes ("none": no
\* fault) on a controller that is initialized or not: a result, or "raise"
CallOutcome(op, fault, init) ==
    IF fault = "none" THEN OrdinaryResult(op, init)
    ELSE LET pt == CHOOSE x \in FaultPoints : x.op = op /\ x.fault = fault
         IN  IF pt.needs_init /\ ~init THEN OrdinaryResult(op, init)
             ELSE IF Escapes(pt.handlers) THEN "raise"
             ELSE pt.returns

\* the faults that can be injected into op
FaultsOf(op) == {"none"} \cup {pt.fault : pt \in {x \in FaultPoints : x.op = op}}

\* A caller is inside a public operation, on a controller that is
\* initialized or not, with a fault injected or none
InitFaulted ==
    /\ \E ok \in BOOLEAN :
        /\ camera_0 = IF ok THEN "Camera" ELSE "None"
        /\ camera_1 = IF ok THEN "Camera" ELSE "None"
        /\ initialized = ok
        /\ running = [c \in Channels |-> ok]
    /\ hwExposure = [c \in Channels |-> 0]
    /\ exposure_range = <<10000, 15000>>
    /\ focus_steps = 2
    /\ default_focus_step = 1
    /\ picamera2 \in BOOLEAN
    /\ manual_exposure_time = Rat(InitialExposureTime, 1)
    /\ focus_step_0 = 1
    /\ focus_step_1 = 1
    /\ lock = "free"
    /\ \E op \in PublicOperations : \E fault \in FaultsOf(op) :
          /\ pcMain = op
          /\ call = [op |-> op, arg |-> fault, ch |-> 0]
    /\ ret = "None"
    /\ ret_pair = <<"None", "None">>
    /\ stop_failed = FALSE
    /\ pcPreview = "idle"
    /\ frame = "None"
    /\ PreviewThreadLoops
    /\ WindowInit(500, 500)

\* the call ends: by a return, or by an exception reaching the caller
CallEnds ==
    /\ pcMain # "idle"
    /\ pcMain' = "idle"
    /\ ret' = CallOutcome(call.op, call.arg, initialized)
    /\ UNCHANGED <<call, ret_pair, stop_failed>>
    /\ UNCHANGED <<cfgVars, camVars, prevVars, wfVars>>

NextFaulted == CallEnds

SpecFaulted == InitFaulted /\ [][NextFaulted]_vars

\* ------------------------------------------------- check_storage_space
\* The thresholds a configuration can give (any two numbers of megabytes,
\* in either order; the defaults 1000 and 500) and the free bytes
\* disk_usage can report: around every multiple of a megabyte up to the
\* thresholds, and 400 MB
MaxThresholdMB == 3
ThresholdsMB ==
    {<<low, critical>> : low \in 0..MaxThresholdMB,
                         critical \in 0..MaxThresholdMB}
        \cup {<<DefaultLowMB, DefaultCriticalMB>>}
FreeBytes ==
    {b \in {k * Mebibyte + d : k \in 0..(MaxThresholdMB + 1),
                               d \in {0 - 1, 0, 1}} : b >= 0}
        \cup {400 * Mebibyte}

InitWarning ==
    /\ CameraReady
    /\ default_segment_length = 500
    /\ segment_adjustment_step = 500
    /\ workflow_state = "main_input"
    /\ project_input = <<>>
    /\ borehole_input = <<>>
    /\ depth_from_input = NumText(0)
    /\ depth_to_input = NumText(500)
    /\ current_project = <<>>
    /\ current_borehole = <<>>
    /\ current_depth_from = Num(0)
    /\ current_depth_to = Num(500)
    /\ captured_images = <<>>
    /\ preview_dialog = FALSE
    /\ files = {}
    /\ usb_files = {}
    /\ storage_result = NoResult
    /\ base_path = NoPath
    /\ \E t \in ThresholdsMB : StorageInit(t[1], t[2])
    /\ capture_count = 0
    /\ accepted = {}
    /\ last_event = "none"

\* manager.py 74-90: check_storage_space for internal storage, disk_usage
\* reporting free_bytes free (0 when it raises, line 72)
CheckStorageSpace(free_bytes) ==
    /\ storage_info' =
          [free |-> free_bytes,
           free_mb |-> free_bytes \div Mebibyte,
           warning_level |-> GetWarningLevel(free_bytes,
                                             critical_space_warning,
                                             low_space_warning)]
    /\ last_event' = "storage_checked"
    /\ UNCHANGED <<uiCfgVars, workflow_state, inputVars, currentVars,
                   captured_images, preview_dialog, files, usb_files,
                   storage_result, base_path, low_space_warning,
                   critical_space_warning, capture_count, accepted>>
    /\ UNCHANGED <<cfgVars, camVars, mainVars, prevVars>>

NextWarning == \E free_bytes \in FreeBytes : CheckStorageSpace(free_bytes)

SpecWarning == InitWarning /\ [][NextWarning]_vars

\* ======================================================================
\* Claims
\* ======================================================================

\* C1: a stereo pair is written to primary storage only after the operator
\* accepted channel 1 and then channel 2 of that same pending pair: the save
\* runs only with both channels of the pending pair accepted since its
\* capture, channel 2 is never accepted before channel 1, and every file
\* that appears in primary storage holds an image of that pair.
SaveHasBothAccepts ==
    /\ workflow_state = "saving" => (accepted = {1, 2} /\ captured_images # <<>>)
    /\ workflow_state \in {"capturing", "reviewing_cam1"} => accepted = {}
    /\ 2 \in accepted => 1 \in accepted

WritesOnlyAcceptedPair ==
    files' # files =>
        /\ workflow_state = "saving"
        /\ accepted = {1, 2}
        /\ \A x \in files' \ files : x.img = captured_images[x.n]

C1_SaveOnlyAfterBothAccepted ==
    []SaveHasBothAccepts /\ [][WritesOnlyAcceptedPair]_vars

C1_Witness ==
    /\ last_event = "saved"
    /\ \E x, y \in files : x.n = 1 /\ y.n = 2 /\ x.base = y.base
                              /\ x.img = y.img

\* C2: capture_stereo_pair is invoked only when the project name is
\* non-empty, the borehole name is non-empty and depth_from < depth_to; and
\* an OK in Positioning that fails the check leaves the workflow in
\* Positioning with no capture.
CaptureInvokedOnValidInputs ==
    workflow_state = "capturing" =>
        /\ current_project # <<>>
        /\ current_borehole # <<>>
        /\ FloatLess(current_depth_from, current_depth_to)

InvalidOkChangesNothing ==
    last_event' = "ok_invalid" =>
        /\ workflow_state' = workflow_state
        /\ capture_count' = capture_count
        /\ captured_images' = captured_images

C2_CaptureOnlyWithValidInputs ==
    []CaptureInvokedOnValidInputs /\ [][InvalidOkChangesNothing]_vars

\* C3: rejecting the image of channel 1 or of channel 2 empties the pending
\* pair, writes no file to primary storage or to the backup, and returns the
\* workflow to Positioning.
RejectDiscards ==
    (workflow_state \in {"reviewing_cam1", "reviewing_cam2"}
        /\ last_event' \in {"reject1", "reject2"})
    => /\ captured_images # <<>>
       /\ captured_images' = <<>>
       /\ workflow_state' = "positioning"
       /\ files' = files
       /\ usb_files' = usb_files

C3_RejectDiscardsPair == [][RejectDiscards]_vars

C3_Witness ==
    /\ last_event = "reject2"
    /\ workflow_state = "positioning"
    /\ captured_images = <<>>
    /\ files # {}

\* C10: when writing the pair to primary storage fails in Saving, the save
\* attempt fails, the workflow returns to Positioning, and the pending pair
\* is still held afterwards.
C10_PairHeldAfterSaveFailure ==
    last_event = "save_failed" =>
        /\ workflow_state = "positioning"
        /\ captured_images # <<>>

\* C4: for every sequence of adjust_focus calls started from a step inside
\* [0, focus_steps-1], both channels' steps stay inside [0, focus_steps-1];
\* 'decrease' at step 0 and 'increase' at step focus_steps-1 return failure
\* and leave the step unchanged.
FocusStepsInBounds ==
    default_focus_step \in 0..(focus_steps - 1)
        => /\ focus_step_0 \in 0..(focus_steps - 1)
           /\ focus_step_1 \in 0..(focus_steps - 1)

AtFocusBoundary(direction, ch) ==
    \/ direction = "decrease" /\ FocusStep(ch) = 0
    \/ direction = "increase" /\ FocusStep(ch) = focus_steps - 1

FocusBoundaryCallFails ==
    (pcMain = "idle" /\ pcMain' = "adjust_focus"
        /\ AtFocusBoundary(call'.arg, call'.ch))
    => (ret' = "False" /\ focus_step_0' = focus_step_0
                       /\ focus_step_1' = focus_step_1)

C4_FocusWithinBounds ==
    []FocusStepsInBounds /\ [][FocusBoundaryCallFails]_vars

C4_Witness ==
    /\ pcMain = "adjust_focus" /\ call.arg = "increase" /\ ret = "False"
    /\ focus_steps = MaxFocusSteps
    /\ default_focus_step = 1
    /\ FocusStep(call.ch) = focus_steps - 1
    /\ FocusStep(1 - call.ch) = 0

\* C5: for every configured range and every sequence of adjust_exposure
\* calls, the shared exposure value is inside [exposure_min, exposure_max]
\* after each call.
C5_ExposureWithinRange ==
    (call.op = "adjust_exposure" /\ ret = "True")
        => InRange(manual_exposure_time, exposure_range)

\* C6: on an initialized controller, repeated 'brighter' calls bring the
\* shared exposure to exactly exposure_max after finitely many calls, and
\* every further 'brighter' call leaves it at exposure_max.
AtExposureMax == manual_exposure_time = Rat(exposure_range[2], 1)

C6_BrighterConverges ==
    <>AtExposureMax /\ [][AtExposureMax => AtExposureMax']_vars

C6_Witness ==
    /\ pcMain = "adjust_exposure" /\ call.arg = "brighter" /\ ret = "True"
    /\ AtExposureMax
    /\ hwExposure = [c \in Channels |-> exposure_range[2]]
    /\ exposure_range[2] > InitialExposureTime

\* C7: a get_preview_frame call never reads a channel while
\* capture_stereo_pair, adjust_exposure, adjust_focus, initialize or cleanup
\* is inside its locked hardware access.
C7_PreviewExcludedByLock ==
    ~(pcPreview = "reading" /\ lock = "main"
        /\ pcMain \in {"capture_stereo_pair", "adjust_exposure",
                       "adjust_focus", "initialize", "initialize_raise",
                       "cleanup", "initialize_cleanup"})

C9_CaptureNeverPartial ==
    /\ ret_pair \in {<<"img", "img">>, <<"None", "None">>}
    /\ (pcMain = "capture_stereo_pair" /\ call.arg # "none")
           => ret_pair = <<"None", "None">>

C9_Witness ==
    /\ pcMain = "capture_stereo_pair" /\ call.arg = "cam1"
    /\ initialized /\ camera_0 # "None" /\ camera_1 # "None"
    /\ ret_pair = <<"None", "None">>

\* C14: adjust_exposure applies the new exposure to both channels
\* atomically: after any 'brighter' or 'darker' call on an initialized
\* controller, whether it returned success or failure, channel 0 and
\* channel 1 hold the same ExposureTime, equal to the shared exposure value
\* (in whole microseconds, as set_controls is given it).
C14_ExposureAppliedToBoth ==
    (pcMain = "idle" /\ call.op = "adjust_exposure" /\ initialized
        /\ picamera2 /\ call.arg \in Directions)
    => /\ hwExposure[0] = hwExposure[1]
       /\ hwExposure[0] = RatInt(manual_exposure_time)

\* C15: cleanup() is idempotent: after a call in which no stop() raises both
\* handles are released, no channel streams and the initialization flag is
\* false; a further call, made on a released controller (also after a failed
\* initialize), changes nothing and returns.
CleanupReleases ==
    (call.op = "cleanup" /\ pcMain \in {"cleanup", "idle"} /\ ~stop_failed)
    => (Released /\ running = [c \in Channels |-> FALSE])

CleanupAgainChangesNothing ==
    (pcMain = "idle" /\ pcMain' = "cleanup" /\ Released)
    => /\ Released'
       /\ ~stop_failed'
       /\ UNCHANGED <<manual_exposure_time, focus_step_0, focus_step_1,
                      running, hwExposure>>

OkEvents == {"ok_invalid", "ok_main_input", "capture_invoked"}

\* C16: an OK event in MainInput moves the workflow to Positioning when the
\* project name is non-empty, the borehole name is non-empty and
\* depth_from < depth_to; when any of these fails the workflow stays in
\* MainInput.
OkInMainInput ==
    (workflow_state = "main_input" /\ last_event' \in OkEvents)
    => IF /\ current_project' # <<>>
          /\ current_borehole' # <<>>
          /\ FloatLess(current_depth_from', current_depth_to')
       THEN workflow_state' = "positioning"
       ELSE workflow_state' = "main_input"

C16_OkInMainInputValidates == [][OkInMainInput]_vars

\* C17: when the depth_from or the depth_to input is not parseable as a
\* number, an OK event is rejected as a validation error: the workflow state
\* is unchanged and no capture is performed, whatever depth values were
\* entered earlier.
OkWithUnparseableDepth ==
    (/\ workflow_state \in Interactive
     /\ last_event' \in OkEvents
     /\ ~ParseFloat(depth_from_input).ok \/ ~ParseFloat(depth_to_input).ok)
    => /\ last_event' = "ok_invalid"
       /\ workflow_state' = workflow_state

C17_UnparseableDepthRejected == [][OkWithUnparseableDepth]_vars

\* ----------------------------------------------------------------------
\* The step of _save_images, and whether it wrote the whole pending pair
\* to primary storage
SaveStep == workflow_state = "saving" /\ workflow_state' # "saving"

PrimaryWritten ==
    \A n \in {1, 2} :
        \E x \in files' : x.n = n /\ x.img = captured_images[n]
                            /\ x.base = GenerateFilePath(
                                   current_project, current_borehole,
                                   current_depth_from, current_depth_to)

\* C11: after every successful save the new depth_from equals the depth_to
\* the save used, and the new depth_to equals the new depth_from plus the
\* configured segment length.
DepthAdvances ==
    (SaveStep /\ last_event' = "saved")
    => /\ current_depth_from' = current_depth_to
       /\ current_depth_to' =
              FloatAdd(current_depth_from', default_segment_length)

C11_SaveAdvancesDepth == [][DepthAdvances]_vars

\* C12: a save whose primary write succeeds is a successful save whatever
\* the backup does: the depth inputs advance, the workflow is in Positioning
\* and the backup's result reports both primary files.
PrimarySaveSucceeds ==
    (SaveStep /\ PrimaryWritten)
    => /\ last_event' = "saved"
       /\ workflow_state' = "positioning"
       /\ depth_from_input' = Format2f(current_depth_to)
       /\ depth_to_input' =
              Format2f(FloatAdd(current_depth_to, default_segment_length))
       /\ storage_result'.internal_success
       /\ storage_result'.internal_paths = <<1, 2>>

C12_BackupNeverFailsSave == [][PrimarySaveSucceeds]_vars

\* a save that went through although every copy to the backup drive failed
C12_Witness ==
    /\ last_event = "saved"
    /\ workflow_state = "positioning"
    /\ storage_result.internal_paths = <<1, 2>>
    /\ ~storage_result.usb_success
    /\ storage_result.errors = <<[kind |-> "usb_backup_failed", n |-> 1],
                                 [kind |-> "usb_backup_failed", n |-> 2]>>
    /\ usb_files = {}
    /\ depth_from_input # NumText(0)

\* C13: in a backup batch every primary file is either copied or recorded
\* in the error list, a failing copy not stopping the copies after it, and
\* the backup counts as successful exactly when at least one file of the
\* batch was copied.
InSeq(x, seq) == \E i \in 1..Len(seq) : seq[i] = x

BackupBatch ==
    (SaveStep /\ last_event' = "saved")
    => LET r == storage_result'
           copied(n) == \E x \in usb_files' :
                            x.n = n /\ x.img = captured_images[n]
       IN  /\ ~InSeq([kind |-> "no_usb", n |-> 0], r.errors)
               => \A i \in 1..Len(r.internal_paths) :
                     LET n == r.internal_paths[i]
                     IN  /\ copied(n) <=> InSeq(n, r.usb_paths)
                         /\ ~copied(n) <=>
                              InSeq([kind |-> "usb_backup_failed", n |-> n],
                                    r.errors)
           /\ r.usb_success <=> \E n \in {1, 2} : copied(n)

C13_BackupBatchContinues == [][BackupBatch]_vars

\* the first copy failed and the second was still made
C13_Witness ==
    /\ last_event = "saved"
    /\ storage_result.usb_success
    /\ storage_result.usb_paths = <<2>>
    /\ storage_result.errors = <<[kind |-> "usb_backup_failed", n |-> 1]>>
    /\ \E x \in usb_files : x.n = 2
    /\ ~\E x \in usb_files : x.n = 1

\* C18: whenever the stereo pair is written, the depth range the path is
\* built from satisfies depth_from < depth_to.
SaveRangeOrdered ==
    (workflow_state = "saving" /\ files' # files)
    => FloatLess(current_depth_from, current_depth_to)

C18_NoSaveWithEmptyRange == [][SaveRangeOrdered]_vars

\* ----------------------------------------------------------------------
\* C20: none of the characters < > : " / \ | ? * of the project and
\* borehole names appears in the project folder, the borehole folder or the
\* file name of the generated path.
HasInvalidChar(str) == \E i \in 1..Len(str) : str[i] \in InvalidChars

C20_PathHasNoInvalidChars ==
    base_path # NoPath
    => /\ ~HasInvalidChar(base_path.project)
       /\ ~HasInvalidChar(base_path.borehole)
       /\ ~HasInvalidChar(base_path.base_filename)

\* a path generated from names that both carry such a character
C20_Witness ==
    /\ base_path # NoPath
    /\ HasInvalidChar(current_project)
    /\ HasInvalidChar(current_borehole)
    /\ Len(base_path.base_filename) > Len(base_path.borehole)

ExampleCalled ==
    /\ base_path # NoPath
    /\ current_project = MyProject
    /\ current_borehole = BH1
    /\ current_depth_from = Num(0)
    /\ current_depth_to = Num(500)

ExampleFileName ==
    <<"B", "H", "_", "1", "-", "0", "_", "0", "0", "-", "0", "_", "5", "0">>

\* C21 as stated: generate_file_path("My Project", "BH/1", 0.0, 0.5) returns
\* the primary root followed by My_Project/BH_1/BH_1-0_00-0_50.
C21_ExamplePathUnderscored ==
    ExampleCalled
    => base_path =
         [project |-> <<"M", "y", "_", "P", "r", "o", "j", "e", "c", "t">>,
          borehole |-> <<"B", "H", "_", "1">>,
          base_filename |-> ExampleFileName]

\* C21 amended: generate_file_path("My Project", "BH/1", 0.0, 0.5) returns
\* the primary root followed by "My Project/BH_1/BH_1-0_00-0_50": the blank
\* inside the project name is kept, only the nine invalid characters are
\* replaced.
C21_ExamplePath ==
    ExampleCalled
    => base_path =
         [project |-> <<"M", "y", " ", "P", "r", "o", "j", "e", "c", "t">>,
          borehole |-> <<"B", "H", "_", "1">>,
          base_filename |-> ExampleFileName]

C21_Witness == ExampleCalled /\ last_event = "path_generated"

\* ----------------------------------------------------------------------
\* C22: the warning level is "critical" when free < critical threshold,
\* "low" when critical threshold <= free < low threshold and "ok"
\* otherwise, the thresholds being the configured megabytes times 1024
\* squared; and the level never improves as free space decreases.
LevelMatchesThresholds ==
    storage_info # NoInfo
    => LET free == storage_info.free
           level == storage_info.warning_level
       IN  /\ free < critical_space_warning => level = "critical"
           /\ (critical_space_warning <= free /\ free < low_space_warning)
                  => level = "low"
           /\ (critical_space_warning <= free /\ low_space_warning <= free)
                  => level = "ok"

Severity(level) ==
    IF level = "critical" THEN 2 ELSE IF level = "low" THEN 1 ELSE 0

LevelNeverImproves ==
    (storage_info # NoInfo /\ storage_info'.free <= storage_info.free)
    => Severity(storage_info'.warning_level)
           >= Severity(storage_info.warning_level)

C22_WarningLevelMonotonic ==
    []LevelMatchesThresholds /\ [][LevelNeverImproves]_vars

\* 400 MB free with thresholds low = 1000 MB, critical = 500 MB
C22_Witness ==
    /\ low_space_warning = 1000 * 1024 * 1024
    /\ critical_space_warning = 500 * 1024 * 1024
    /\ storage_info.free = 400 * 1024 * 1024
    /\ storage_info.warning_level = "critical"

\* ----------------------------------------------------------------------
\* C23: on an initialized controller whose shared exposure already equals
\* exposure_max (resp. exposure_min), adjust_exposure('brighter') (resp.
\* 'darker') leaves the value unchanged and returns success; it returns
\* failure only when set_controls raises on a channel.
ExposureBoundaryCall ==
    /\ pcMain = "idle" /\ pcMain' = "adjust_exposure"
    /\ initialized
    /\ \/ call'.arg = "brighter"
          /\ manual_exposure_time = Rat(exposure_range[2], 1)
       \/ call'.arg = "darker"
          /\ manual_exposure_time = Rat(exposure_range[1], 1)

ExposureBoundarySucceeds ==
    ExposureBoundaryCall
    => /\ manual_exposure_time' = manual_exposure_time
       /\ ret' \in {"True", "False"}
       /\ ret' = "False"
            => /\ picamera2
               /\ \E f \in CaptureFaults :
                     /\ ExposureApplyFails(camera_0, camera_1, f)
                     /\ hwExposure' = AppliedExposure(
                            hwExposure, manual_exposure_time',
                            camera_0, camera_1, f)

PreviewReturnsNone ==
    /\ (pcPreview = "called" /\ pcPreview' # "called" /\ ~initialized)
           => (pcPreview' = "idle" /\ frame' = "None")
    /\ (pcPreview = "checked" /\ pcPreview' # "checked" /\ camera_0 = "None")
           => (pcPreview' = "idle" /\ frame' = "None")

C24_PreviewNeverRaises ==
    [](frame \in {"frame", "None"}) /\ [][PreviewReturnsNone]_vars

\* the call has passed the initialization check and cleanup() has released
\* the handle it is about to read
C24_Witness ==
    /\ pcPreview = "checked"
    /\ pcMain = "cleanup"
    /\ camera_0 = "None" /\ ~initialized
    /\ frame = "frame"

\* ----------------------------------------------------------------------
\* C25: the + and - controls change only depth_to: + adds the configured
\* step, - subtracts it and clamps the result at 0; depth_from, the project
\* and borehole names and the workflow state are left unchanged.
DepthToAdjusted ==
    (workflow_state \in Interactive /\ last_event' = "depth_adjusted"
        /\ ParseFloat(depth_to_input).ok)
    => /\ \/ current_depth_to' =
                 FloatAdd(current_depth_to, segment_adjustment_step)
          \/ current_depth_to' =
                 MaxZero(FloatAdd(current_depth_to,
                                  0 - segment_adjustment_step))
       /\ UNCHANGED <<current_depth_from, depth_from_input, current_project,
                      current_borehole, project_input, borehole_input,
                      workflow_state>>

C25_PlusMinusChangeOnlyDepthTo == [][DepthToAdjusted]_vars

\* C26: the depth range (depth_from, depth_to) changes only by the
\* auto-advance after a save that wrote the pair, or by the operator's own
\* depth input (typing in a depth field, + or -): a failed capture, the
\* rejection of either channel, a failed save, NO in Positioning, the focus
\* dialog and an exposure adjustment all leave both values as they were.
DepthRange == <<current_depth_from, current_depth_to>>

DepthTexts == <<depth_from_input, depth_to_input>>

DepthRangeChangesOnlyByAdvanceOrInput ==
    (DepthRange' # DepthRange)
    => \/ /\ workflow_state = "saving"
          /\ last_event' = "saved"
          /\ PrimaryWritten
       \/ /\ last_event' \in {"input_changed", "depth_adjusted"}
          /\ DepthTexts' # DepthTexts

OtherEventsKeepDepthRange ==
    (\/ last_event' \in {"capture_failed", "review_failed", "reject1",
                          "reject2", "save_failed", "no_clicked",
                          "focus_opened_in_main_input",
                          "focus_opened_in_positioning", "focus_clicked"}
     \/ pcMain = "idle" /\ pcMain' = "adjust_exposure"
     \/ pcMain = "adjust_exposure" /\ pcMain' = "idle")
    => DepthRange' = DepthRange

C26_DepthRangeMutators ==
    [][DepthRangeChangesOnlyByAdvanceOrInput /\ OtherEventsKeepDepthRange]_vars

\* a save has failed after an earlier one advanced the range
C26_Witness ==
    /\ last_event = "save_failed"
    /\ files # {}
    /\ current_depth_from # Num(0)

\* C27: the workflow enters Positioning only by an OK in MainInput that
\* passed validation, or from a capture cycle, which starts in Positioning
\* (a focus dialog opened in Positioning returns there); no other operator
\* event moves MainInput to Positioning, in particular not opening and
\* closing the focus dialog while in MainInput.
CaptureCycle ==
    {"capturing", "reviewing_cam1", "reviewing_cam2", "saving"}

EntersPositioning ==
    (workflow_state # "positioning" /\ workflow_state' = "positioning")
    => \/ workflow_state = "main_input" /\ last_event' = "ok_main_input"
       \/ workflow_state \in CaptureCycle
       \/ /\ workflow_state = "focus_mode"
          /\ last_event = "focus_opened_in_positioning"

CaptureStartsInPositioning ==
    (workflow_state \notin CaptureCycle /\ workflow_state' \in CaptureCycle)
    => workflow_state = "positioning"

C27_PositioningOnlyAfterOk ==
    [][EntersPositioning /\ CaptureStartsInPositioning]_vars

\* C28: when capture_stereo_pair returns failure the workflow goes from
\* Capturing straight back to Positioning, entering no review state; no
\* pending pair is held afterwards and no file is written to primary storage
\* or to the backup.
CaptureFailureReturns ==
    (workflow_state = "capturing" /\ last_event' = "capture_failed")
    => /\ workflow_state' = "positioning"
       /\ captured_images' = <<>>
       /\ files' = files
       /\ usb_files' = usb_files

C28_CaptureFailureReturnsToPositioning == [][CaptureFailureReturns]_vars

\* C29: every capture cycle ends in Positioning: from Capturing, from the
\* review of either channel and from Saving the workflow eventually reaches
\* Positioning, given that the operator answers each review and every camera
\* and storage call returns; and MainInput is reached only by NO pressed in
\* Positioning.
CycleEndsInPositioning ==
    (workflow_state \in CaptureCycle) ~> (workflow_state = "positioning")

MainInputOnlyByCancel ==
    (workflow_state # "main_input" /\ workflow_state' = "main_input")
    => workflow_state = "positioning" /\ last_event' = "no_clicked"

C29_CycleEndsInPositioning ==
    CycleEndsInPositioning /\ [][MainInputOnlyByCancel]_vars

\* a cycle that went through both reviews and a save is back in Positioning
C29_Witness ==
    /\ workflow_state = "positioning"
    /\ last_event \in {"saved", "save_failed"}
    /\ capture_count = MaxCaptures

\* C30: the two images of every saved pair come from the same
\* capture_stereo_pair invocation: a capture replaces both pending images by
\* those of the new invocation, every file written holds an image of the
\* latest invocation, a successful save leaves both files of its path with
\* images of that one invocation, and no image of a rejected pair is in
\* storage.
CaptureReplacesBoth ==
    (workflow_state = "capturing" /\ last_event' \in {"captured", "review_failed"})
    => /\ capture_count' = capture_count + 1
       /\ captured_images' = <<capture_count', capture_count'>>
       /\ \A x \in files \cup usb_files : x.img # capture_count'

WritesLatestCapture ==
    /\ \A x \in (files' \ files) \cup (usb_files' \ usb_files) :
          /\ x.img = capture_count
          /\ captured_images = <<capture_count, capture_count>>
    /\ (SaveStep /\ last_event' = "saved")
       => \E x, y \in files' :
             /\ x.n = 1 /\ y.n = 2 /\ x.base = y.base
             /\ x.img = capture_count /\ y.img = capture_count

RejectedNeverWritten ==
    last_event \in {"reject1", "reject2"}
    => /\ captured_images = <<>>
       /\ \A x \in files \cup usb_files : x.img # capture_count

C30_SavedPairFromOneCapture ==
    []RejectedNeverWritten /\ [][CaptureReplacesBoth /\ WritesLatestCapture]_vars

\* the first pair was rejected, the second saved
C30_Witness ==
    /\ last_event = "saved"
    /\ capture_count = 2
    /\ files # {}
    /\ \A x \in files : x.img = 2

\* C31: adjust_focus on one channel changes only that channel's focus step:
\* the other channel's step, the shared exposure value, the exposure each
\* device holds and the initialization flag are unchanged; and
\* adjust_exposure changes neither channel's focus step.
FocusCall == pcMain = "idle" /\ pcMain' = "adjust_focus"

ExposureCall == pcMain = "idle" /\ pcMain' = "adjust_exposure"

FocusChangesOneChannel ==
    FocusCall
    => /\ call'.ch = 0 => focus_step_1' = focus_step_1
       /\ call'.ch = 1 => focus_step_0' = focus_step_0
       /\ manual_exposure_time' = manual_exposure_time
       /\ hwExposure' = hwExposure
       /\ initialized' = initialized

ExposureKeepsFocus ==
    ExposureCall
    => /\ focus_step_0' = focus_step_0
       /\ focus_step_1' = focus_step_1

C31_FocusAndExposureIndependent ==
    [][FocusChangesOneChannel /\ ExposureKeepsFocus]_vars

\* a focus call moved one channel away from the other after the exposure
\* had been changed
C31_Witness ==
    /\ call.op = "adjust_focus"
    /\ ret = "True"
    /\ focus_step_0 # focus_step_1
    /\ manual_exposure_time # Rat(InitialExposureTime, 1)

\* C32: in the initial state of the controller, before any call, both
\* channels' focus steps lie inside [0, focus_steps-1] for every configured
\* focus_steps.
C32_InitialFocusInBounds ==
    (call = NoCall /\ pcMain = "idle")
    => /\ focus_step_0 \in 0..(focus_steps - 1)
       /\ focus_step_1 \in 0..(focus_steps - 1)

\* C33: on a controller built with simulated channels (the Picamera2
\* library missing) and no injected fault, initialize() returns success
\* with both channels started and the initialization flag set, as it does
\* with hardware channels.
C33_MockInitializeSucceeds ==
    (pcMain = "idle" /\ call.op = "initialize" /\ ~picamera2)
    => /\ ret = "True"
       /\ running[0] /\ running[1]
       /\ initialized

\* C34: whenever the workflow is in MainInput or Positioning no pending
\* image pair is held, on every path, the one on which showing a review
\* raises included.
C34_NoPendingPairWhileInteractive ==
    workflow_state \in Interactive => captured_images = <<>>

\* C35: save_stereo_pair writes both files or neither: when it returns
\* failure, primary storage holds neither the -1.jpg nor the -2.jpg file of
\* that save attempt.
FailedSaveWritesNothing ==
    (SaveStep /\ last_event' = "save_failed")
    => \A n \in {1, 2} :
          ~\E x \in files' :
              /\ x.n = n
              /\ x.img = captured_images[n]
              /\ x.base = GenerateFilePath(current_project, current_borehole,
                                           current_depth_from, current_depth_to)

C35_SaveWritesBothOrNeither == [][FailedSaveWritesNothing]_vars

\* C36: whenever the initialization flag is true and no controller
\* operation holds the lock, both channel handles are present; in
\* particular after any cleanup() call, one in which stopping a channel
\* fails included, the flag is false or both handles are still present.
C36_InitializedImpliesHandles ==
    (initialized /\ lock = "free")
    => (camera_0 # "None" /\ camera_1 # "None")

\* C37: the controller's lock is released on every return path of every
\* operation and is never acquired while its caller already holds it: the
\* failure path of initialize() reaches cleanup() with the lock free, and in
\* no interleaving of initialize, capture, adjust, preview and cleanup is
\* the UI thread or the preview thread left unable to go on.
LockFreeOutsideOperations ==
    pcMain \in {"idle", "initialize_except"} => lock = "free"

MainThreadStep == Return \/ \E sf \in StopFaults : CleanupBody(sf)

PreviewThreadStep ==
    \/ PreviewCheck
    \/ PreviewRead
    \/ \E o \in {"frame", "None", "raise"} : PreviewReadDone(o)

NoThreadBlocked ==
    /\ pcMain # "idle" => ENABLED MainThreadStep
    /\ pcPreview # "idle" => ENABLED PreviewThreadStep

AcquiredOnlyWhenFree == (lock' = "main" /\ lock' # lock) => lock = "free"

C37_LockReleasedNoDeadlock ==
    [](LockFreeOutsideOperations /\ NoThreadBlocked)
        /\ [][AcquiredOnlyWhenFree]_vars

\* the cleanup of a failed initialize holds the lock it took anew
C37_Witness ==
    /\ pcMain = "initialize_cleanup"
    /\ lock = "main"
    /\ call.op = "initialize"

\* C38: after stop() is called on the preview polling thread, the polling
\* loop eventually terminates and stop() returns, for every interleaving of
\* start(), the thread's first step of run(), and stop().
C38_StopTerminatesThread ==
    (pcStop = "waiting") ~> (pcThread = "finished" /\ pcStop = "returned")

\* C39: an adjust_exposure call that returns failure (controller not
\* initialized, unknown direction, or the hardware rejecting the control)
\* leaves the controller's shared exposure value unchanged.
FailedExposureCallKeepsValue ==
    (ExposureCall /\ ret' = "False")
    => manual_exposure_time' = manual_exposure_time

C39_FailedExposureKeepsValue == [][FailedExposureCallKeepsValue]_vars

\* C40: for every project and borehole name the sanitized name is
\* non-empty, holds no path separator and is neither "." nor "..", so the
\* generated path lies strictly below the primary root, exactly two
\* directory levels deep: project folder, borehole folder, file name.
PathSeparators == {"/", "\\"}

OnePathSegment(str) ==
    /\ str # <<>>
    /\ \A i \in 1..Len(str) : str[i] \notin PathSeparators
    /\ str \notin {<<".">>, <<".", ".">>}

C40_PathBelowRoot ==
    base_path # NoPath
    => /\ OnePathSegment(base_path.project)
       /\ OnePathSegment(base_path.borehole)
       /\ OnePathSegment(base_path.base_filename)

\* a path generated for the project ".." and the borehole "/"
C40_Witness ==
    /\ base_path # NoPath
    /\ current_project = <<".", ".">>
    /\ current_borehole = <<"/">>
    /\ base_path.project = Unnamed
    /\ base_path.borehole = <<"_">>

====
